---- MODULE Spec2Model ----
(***************************************************************************)
(* x-reader: the query-id cache (src/api/query-ids.ts), the dispatch of    *)
(* XReaderClient.tryWithQueryIds and the read operations built on it       *)
(* (src/api/client.ts), as state machines.                                 *)
(*                                                                         *)
(*   Spec       one client: read operations dispatched over the cache      *)
(*   SpecCache  the query-id cache module driven directly                  *)
(*   SpecScan   a forced refresh with the fetches of scanBundles           *)
(***************************************************************************)
EXTENDS Integers, Sequences, FiniteSets, TLC

VARIABLES
    disk,          \* the cache file at getCachePath(): NoFile or a raw JSON document
    memoryCache,   \* query-ids.ts: let memoryCache
    now,           \* Date.now(), in ms
    last,          \* observation of the last query-ids.ts call (SpecCache)
    pc,            \* position of the client: idle, firstPass, refresh, retryPass, page,
                   \* sleep, userGql, userRest, done
    method,        \* the read operation in progress
    ids,           \* tryWithQueryIds: uniqueIds (first pass), freshIds (retry pass)
    idx,           \* position of the for-loop over ids (1-based)
    lastError,     \* tryWithQueryIds: let lastError
    had404,        \* tryWithQueryIds: let had404
    log,           \* observation: the doRequest calls of this dispatch, in order
    observed,      \* observation: the last non-empty error message an attempt reported
    refreshCalls,  \* observation: refreshQueryIds calls of this dispatch
    outer,         \* the frame of searchAll / getUserTweetsAll / getBookmarksAll, if any
    result,        \* what the read operation handed to its caller
    save,          \* saveCache: the writeFile in flight, if any
    seen,          \* observation: what the last reader of the cache got
    input,         \* the raw payload handed to the parser
    output,        \* what the parser returned for it
    earlier,       \* observation: a payload parsed before and what was returned for it
    scan           \* scanBundles in progress within a refresh: its locals and fetches

saveVars == <<save, seen>>
parseVars == <<input, output, earlier>>
clientVars == <<pc, method, ids, idx, lastError, had404, log, observed, refreshCalls,
                outer, result>>

vars == <<disk, memoryCache, now, last, pc, method, ids, idx, lastError, had404,
          log, observed, refreshCalls, outer, result, save, seen, input, output, earlier,
          scan>>

----------------------------------------------------------------------------
(* Values *)

\* JavaScript null / undefined
NULL == [kind |-> "null"]

\* JavaScript numbers that may be NaN
NaN == [nan |-> TRUE, v |-> 0]
Num(n) == [nan |-> FALSE, v |-> n]
NumSub(a, b) == IF a.nan \/ b.nan THEN NaN ELSE Num(a.v - b.v)
\* a <= b of JavaScript: false when either side is NaN
NumLeq(a, b) == ~a.nan /\ ~b.nan /\ a.v <= b.v

QUERY_ID_TTL_MS == 86400000
HourMs == QUERY_ID_TTL_MS \div 24

\* The operations the client dispatches (keys of DEFAULT_QUERY_IDS it uses)
Ops == {"SearchTimeline", "TweetDetail", "UserTweets", "Bookmarks"}

DEFAULT_QUERY_IDS ==
    [o \in Ops |->
        CASE o = "TweetDetail"    -> "97JF30KziU00483E_8elBA"
          [] o = "SearchTimeline" -> "M1jEez78PEfVfbQLvlWMvQ"
          [] o = "UserTweets"     -> "Wms1GvIiHXAPBaCr9KblaA"
          [] o = "Bookmarks"      -> "RV1g3b8n_SGOHwkqKYSCFw"]

DefaultIdNone(op) == ""

\* DEFAULT_QUERY_IDS[operation], undefined read as ''
DefaultId(op) == IF op \in DOMAIN DEFAULT_QUERY_IDS THEN DEFAULT_QUERY_IDS[op] ELSE ""

DISCOVERY_OPERATIONS == DOMAIN DEFAULT_QUERY_IDS

----------------------------------------------------------------------------
(* The cache file *)

NoFile == [kind |-> "nofile"]

\* new Date(fetchedAt).getTime(): the instant of an ISO string, NaN for other text
DateGetTime(fetchedAt) ==
    IF fetchedAt.kind = "iso" THEN Num(fetchedAt.ms) ELSE NaN

\* new Date().toISOString()
ToISOString(t) == [kind |-> "iso", ms |-> t]

\* A raw document is [kind |-> "doc", fetchedAt, ttlMs, ids, discovery] with
\*   fetchedAt : [kind: "absent"] | [kind: "empty"] | [kind: "text"] | [kind: "iso", ms]
\*   ttlMs     : [kind: "absent"] | [kind: "num", v]
\*   ids       : [kind: "absent"] | [kind: "obj", map]
\*   discovery : [kind: "absent"] | [kind: "obj", pages, bundles]
\*   pages, bundles : [kind: "absent"] | [kind: "list", items]
\* A JSON value inside ids, pages or bundles is [kind: "str", s] or another type.
Absent == [kind |-> "absent"]
List(items) == [kind |-> "list", items |-> items]
Str(s) == [kind |-> "str", s |-> s]
NotAString == [kind |-> "num", v |-> 7]

\* the JSON strings of a sequence of text
StrAll(texts) == [i \in 1..Len(texts) |-> Str(texts[i])]

\* v.trim() on the identifier strings of the model
Trim(v) ==
    CASE v = "  " -> ""
      [] v = " rotatedQid1 " -> "rotatedQid1"
      [] v = " full text " -> "full text"
      [] OTHER -> v

\* items.filter((p): p is string => typeof p === 'string')
RECURSIVE FilterStrings(_)
FilterStrings(items) ==
    IF items = <<>> THEN <<>>
    ELSE (IF Head(items).kind = "str" THEN <<Head(items).s>> ELSE <<>>)
         \o FilterStrings(Tail(items))

\* parseCache: the entries of ids that are strings with non-blank text, trimmed
cleanIds(map) ==
    [k \in {o \in DOMAIN map : map[o].kind = "str" /\ Trim(map[o].s) # ""} |->
        Trim(map[k].s)]

parseCacheDefaultTtl(raw) ==
    IF raw.kind # "doc" THEN NULL
    ELSE IF raw.fetchedAt.kind \in {"absent", "empty"} THEN NULL
    ELSE IF raw.ids.kind # "obj" THEN NULL
    ELSE IF raw.discovery.kind # "obj" THEN NULL
    ELSE IF raw.discovery.pages.kind # "list" \/ raw.discovery.bundles.kind # "list" THEN NULL
    ELSE [kind |-> "snapshot",
          fetchedAt |-> raw.fetchedAt,
          ttlMs |-> IF raw.ttlMs.kind # "num" \/ raw.ttlMs.v = 0 THEN QUERY_ID_TTL_MS
                    ELSE raw.ttlMs.v,
          ids |-> cleanIds(raw.ids.map),
          discovery |-> [pages |-> FilterStrings(raw.discovery.pages.items),
                         bundles |-> FilterStrings(raw.discovery.bundles.items)]]

parseCache(raw) ==
    IF raw.kind # "doc" THEN NULL
    ELSE IF raw.fetchedAt.kind \in {"absent", "empty"} THEN NULL
    ELSE IF raw.ttlMs.kind # "num" \/ raw.ttlMs.v = 0 THEN NULL
    ELSE IF raw.ids.kind # "obj" THEN NULL
    ELSE IF raw.discovery.kind # "obj" THEN NULL
    ELSE IF raw.discovery.pages.kind # "list" \/ raw.discovery.bundles.kind # "list" THEN NULL
    ELSE [kind |-> "snapshot",
          fetchedAt |-> raw.fetchedAt,
          ttlMs |-> raw.ttlMs.v,
          ids |-> cleanIds(raw.ids.map),
          discovery |-> [pages |-> FilterStrings(raw.discovery.pages.items),
                         bundles |-> FilterStrings(raw.discovery.bundles.items)]]

\* The text of a cache file while it is written: [kind |-> "text", tokens], tokens
\* being a sequence of [t, v]: brackets, fields with their value, bundle names.
\* JSON.stringify(cache, null, 2) + '\n' of a document saveCache writes
Stringify(doc) ==
    <<[t |-> "{"],
      [t |-> "fetchedAt", v |-> doc.fetchedAt],
      [t |-> "ttlMs", v |-> doc.ttlMs],
      [t |-> "ids", v |-> doc.ids],
      [t |-> "discovery{"],
      [t |-> "pages", v |-> doc.discovery.pages],
      [t |-> "bundles["]>>
    \o [i \in 1..Len(doc.discovery.bundles.items) |->
           [t |-> "item", v |-> doc.discovery.bundles.items[i]]]
    \o <<[t |-> "]"], [t |-> "}"], [t |-> "}"], [t |-> "nl"]>>

Occurrences(tokens, kinds) == Cardinality({i \in DOMAIN tokens : tokens[i].t \in kinds})

\* a parser that closes what a truncated text left open
BalancedOrTruncated(tokens) == Occurrences(tokens, {"bundles["}) = 1

\* JSON.parse accepts a text only if every bracket it opens is closed
Balanced(tokens) ==
    /\ Occurrences(tokens, {"{"}) = 1
    /\ Occurrences(tokens, {"{", "discovery{", "bundles["}) = Occurrences(tokens, {"]", "}"})

FieldOf(tokens, key) ==
    IF \E i \in DOMAIN tokens : tokens[i].t = key
    THEN tokens[CHOOSE i \in DOMAIN tokens : tokens[i].t = key].v
    ELSE Absent

RECURSIVE ItemsOf(_)
ItemsOf(tokens) ==
    IF tokens = <<>> THEN <<>>
    ELSE (IF Head(tokens).t = "item" THEN <<Head(tokens).v>> ELSE <<>>) \o ItemsOf(Tail(tokens))

\* JSON.parse(raw): the document of a text, a value parseCache rejects when it throws
JSONparse(file) ==
    IF file.kind # "text" THEN file
    ELSE IF ~Balanced(file.tokens) THEN [kind |-> "garbage"]
    ELSE [kind |-> "doc",
          fetchedAt |-> FieldOf(file.tokens, "fetchedAt"),
          ttlMs |-> FieldOf(file.tokens, "ttlMs"),
          ids |-> FieldOf(file.tokens, "ids"),
          discovery |-> [kind |-> "obj", pages |-> FieldOf(file.tokens, "pages"),
                         bundles |-> List(ItemsOf(file.tokens))]]

\* readFile + JSON.parse + parseCache, every failure caught as null
loadCache(file) == IF file = NoFile THEN NULL ELSE parseCache(JSONparse(file))

\* JSON.stringify(cache) as written by saveCache
Serialize(cache) ==
    [kind |-> "doc",
     fetchedAt |-> cache.fetchedAt,
     ttlMs |-> [kind |-> "num", v |-> cache.ttlMs],
     ids |-> [kind |-> "obj", map |-> [o \in DOMAIN cache.ids |-> Str(cache.ids[o])]],
     discovery |-> [kind |-> "obj", pages |-> List(StrAll(cache.discovery.pages)),
                    bundles |-> List(StrAll(cache.discovery.bundles))]]

----------------------------------------------------------------------------
(* query-ids.ts public API, as functions of (memoryCache, file, Date.now()) *)

IsFreshStrict(cache, t) ==
    LET age == NumSub(Num(t), DateGetTime(cache.fetchedAt))
    IN  ~age.nan /\ age.v < (IF cache.ttlMs = 0 THEN QUERY_ID_TTL_MS ELSE cache.ttlMs)

\* isFresh: age <= (memoryCache.ttlMs || QUERY_ID_TTL_MS)
IsFresh(cache, t) ==
    LET age == NumSub(Num(t), DateGetTime(cache.fetchedAt))
    IN  NumLeq(age, Num(IF cache.ttlMs = 0 THEN QUERY_ID_TTL_MS ELSE cache.ttlMs))

\* getSnapshotInfo: [mem |-> memoryCache afterwards, info |-> the value returned]
getSnapshotInfo(mem, file, t) ==
    LET m == IF mem = NULL THEN loadCache(file) ELSE mem
    IN  [mem |-> m,
         info |-> IF m = NULL THEN NULL
                  ELSE [kind |-> "info", snapshot |-> m, isFresh |-> IsFresh(m, t)]]

getQueryIdDefaultFirst(mem, file, t, operation) ==
    LET g == getSnapshotInfo(mem, file, t)
    IN  [mem |-> g.mem,
         id |-> IF operation \in DOMAIN DEFAULT_QUERY_IDS THEN DEFAULT_QUERY_IDS[operation]
                ELSE IF g.info # NULL /\ operation \in DOMAIN g.info.snapshot.ids
                THEN g.info.snapshot.ids[operation]
                ELSE ""]

\* getQueryId: [mem, id]
getQueryId(mem, file, t, operation) ==
    LET g == getSnapshotInfo(mem, file, t)
    IN  [mem |-> g.mem,
         id |-> IF g.info # NULL /\ operation \in DOMAIN g.info.snapshot.ids
                   /\ g.info.snapshot.ids[operation] # ""
                THEN g.info.snapshot.ids[operation]
                ELSE DefaultId(operation)]

\* VALID_QUERY_ID = /^[a-zA-Z0-9_-]+$/ over the identifier texts of the model: the
\* ones listed hold a character outside the class, '' is too short
VALID_QUERY_ID(qid) ==
    /\ qid # ""
    /\ qid \notin {"  ", " rotatedQid1 ", "../1.1/x?y=", "bad id!"}

\* A bundle's text is a sequence of tokens: the words "e.exports={",
\* "operationName" and "queryId", the quotes, ":", "=", ",", blanks, newlines,
\* Filler (a run of more than 4000 characters without quote or newline) and other
\* words, each standing for its characters.
Quotes == {"\"", "'"}
Blanks == {" ", "\n"}
Filler == "<4001 characters>"

\* \s* from position i: the position after the blanks
RECURSIVE SkipBlanks(_, _)
SkipBlanks(js, i) ==
    IF i <= Len(js) /\ js[i] \in Blanks THEN SkipBlanks(js, i + 1) ELSE i

\* the position of the first quote at or after i, 0 when there is none
RECURSIVE NextQuote(_, _)
NextQuote(js, i) ==
    IF i > Len(js) THEN 0
    ELSE IF js[i] \in Quotes THEN i
    ELSE NextQuote(js, i + 1)

\* the characters of the tokens a..b
RECURSIVE TextOf(_, _, _)
TextOf(js, a, b) == IF a > b THEN "" ELSE js[a] \o TextOf(js, a + 1, b)

NoField == [ok |-> FALSE, value |-> "", end |-> 0]

FieldQuotedKey(js, i, key, seps) ==
    LET k == i + 1
        a == SkipBlanks(js, k + 1)
        b == SkipBlanks(js, a + 1)
        c == NextQuote(js, b + 1)
    IN  IF /\ i <= Len(js) /\ js[i] = key
           /\ k <= Len(js) /\ js[k] \in Quotes
           /\ a <= Len(js) /\ js[a] \in seps
           /\ b <= Len(js) /\ js[b] \in Quotes
           /\ c > b + 1
        THEN [ok |-> TRUE, value |-> TextOf(js, b + 1, c - 1), end |-> c + 1]
        ELSE NoField

\* key\s*[seps]\s*["']([^"']+)["'] matched at position i: the captured group and
\* the position after the match
Field(js, i, key, seps) ==
    LET a == SkipBlanks(js, i + 1)
        b == SkipBlanks(js, a + 1)
        c == NextQuote(js, b + 1)
    IN  IF /\ i <= Len(js) /\ js[i] = key
           /\ a <= Len(js) /\ js[a] \in seps
           /\ b <= Len(js) /\ js[b] \in Quotes
           /\ c > b + 1
        THEN [ok |-> TRUE, value |-> TextOf(js, b + 1, c - 1), end |-> c + 1]
        ELSE NoField

\* QUERY_ID_PATTERNS: exports for the leading e\.exports=\{, first and second for
\* the two keys in the order of the regex, seps for : or [:=], gap for
\* (.{0,4000}?) between the fields instead of \s*,\s*; the operation is the value
\* of the operationName field and the identifier the value of the queryId field
QUERY_ID_PATTERNS ==
    << [exports |-> TRUE, first |-> "queryId", second |-> "operationName",
        seps |-> {":"}, gap |-> FALSE],
       [exports |-> TRUE, first |-> "operationName", second |-> "queryId",
        seps |-> {":"}, gap |-> FALSE],
       [exports |-> FALSE, first |-> "operationName", second |-> "queryId",
        seps |-> {":", "="}, gap |-> TRUE],
       [exports |-> FALSE, first |-> "queryId", second |-> "operationName",
        seps |-> {":", "="}, gap |-> TRUE] >>

NoMatch == [ok |-> FALSE, op |-> "", qid |-> "", end |-> 0]

\* the pattern matched at position i of the text
MatchAt(pattern, js, i) ==
    LET start == IF pattern.exports THEN i + 1 ELSE i
        f1 == Field(js, start, pattern.first, pattern.seps)
        comma == SkipBlanks(js, f1.end)
        \* the positions the second field may start at: after \s*,\s*, or after
        \* a gap without newline of at most 4000 characters
        starts == IF pattern.gap
                  THEN {j \in f1.end..Len(js) :
                           \A g \in f1.end..(j - 1) : js[g] \notin {"\n", Filler}}
                  ELSE IF comma <= Len(js) /\ js[comma] = ","
                  THEN {SkipBlanks(js, comma + 1)}
                  ELSE {}
        hits == {j \in starts : Field(js, j, pattern.second, pattern.seps).ok}
        f2 == Field(js, CHOOSE j \in hits : \A h \in hits : j <= h,
                    pattern.second, pattern.seps)
    IN  IF /\ i <= Len(js)
           /\ pattern.exports => js[i] = "e.exports={"
           /\ f1.ok
           /\ hits # {}
        THEN [ok |-> TRUE,
              op |-> IF pattern.first = "operationName" THEN f1.value ELSE f2.value,
              qid |-> IF pattern.first = "queryId" THEN f1.value ELSE f2.value,
              end |-> f2.end]
        ELSE NoMatch

\* pattern.regex.exec(js) with lastIndex (1-based): the leftmost match at or after it
RECURSIVE Exec(_, _, _)
Exec(pattern, js, lastIndex) ==
    IF lastIndex > Len(js) THEN NoMatch
    ELSE IF MatchAt(pattern, js, lastIndex).ok THEN MatchAt(pattern, js, lastIndex)
    ELSE Exec(pattern, js, lastIndex + 1)

\* while ((match = pattern.regex.exec(js)) !== null): the matches of one pattern
RECURSIVE MatchesOf(_, _, _)
MatchesOf(pattern, js, lastIndex) ==
    LET match == Exec(pattern, js, lastIndex)
    IN  IF ~match.ok THEN <<>>
        ELSE <<[op |-> match.op, qid |-> match.qid]>> \o MatchesOf(pattern, js, match.end)

\* for (const pattern of QUERY_ID_PATTERNS) { pattern.regex.lastIndex = 0; ... }
RECURSIVE Matches(_, _)
Matches(patterns, js) ==
    IF patterns = <<>> THEN <<>>
    ELSE MatchesOf(Head(patterns), js, 1) \o Matches(Tail(patterns), js)

\* the body of the loops of extractFromBundle over the matches in the order met
RECURSIVE ExtractMatches(_, _, _)
ExtractMatches(matches, wantedOps, results) ==
    IF matches = <<>> THEN results
    ELSE LET op == Head(matches).op
             qid == Head(matches).qid
         IN  IF op = "" \/ qid = "" \/ op \notin wantedOps \/ ~VALID_QUERY_ID(qid)
             THEN ExtractMatches(Tail(matches), wantedOps, results)
             ELSE IF op \in DOMAIN results
             THEN ExtractMatches(Tail(matches), wantedOps, results)
             ELSE LET added == [o \in DOMAIN results \cup {op} |->
                                   IF o = op THEN qid ELSE results[o]]
                  IN  IF DOMAIN added = wantedOps THEN added
                      ELSE ExtractMatches(Tail(matches), wantedOps, added)

\* extractFromBundle(js, bundleName, wantedOps, results): results afterwards
extractFromBundle(js, wantedOps, results) ==
    ExtractMatches(Matches(QUERY_ID_PATTERNS, js), wantedOps, results)

\* scanBundles over the bundles in the order their fetches complete; a bundle whose
\* fetch failed is [kind |-> "failed"], one that was fetched [kind |-> "js", js]
RECURSIVE scanBundles(_, _, _)
scanBundles(fetched, wantedOps, results) ==
    IF fetched = <<>> \/ DOMAIN results = wantedOps THEN results
    ELSE scanBundles(Tail(fetched), wantedOps,
                     IF Head(fetched).kind = "js"
                     THEN extractFromBundle(Head(fetched).js, wantedOps, results)
                     ELSE results)

DISCOVERY_PAGES == <<"https://x.com/?lang=en", "https://x.com/explore",
                     "https://x.com/notifications", "https://x.com/settings/profile">>

NoBundlesMessage == "No client bundles discovered; x.com layout may have changed."
WriteFailedMessage == "EACCES: permission denied, open"

SkipRefreshIgnoringForce(force, info) == info # NULL /\ info.isFresh

\* if (!options.force) { const existing = ...; if (existing?.isFresh) return existing }
SkipRefresh(force, info) == ~force /\ info # NULL /\ info.isFresh

NewIdsWithDefaults(found) ==
    [op \in DISCOVERY_OPERATIONS |->
        IF op \in DOMAIN found /\ found[op] # "" THEN found[op] ELSE DefaultId(op)]

\* for (const op of DISCOVERY_OPERATIONS) { if (entry?.queryId) ids[op] = entry.queryId }
NewIds(found) ==
    [op \in {o \in DISCOVERY_OPERATIONS : o \in DOMAIN found /\ found[o] # ""} |-> found[op]]

\* refreshQueryIds(options), given what the network and the file system do:
\*   bundleUrls  the names of the bundles discoverBundleUrls finds (<<>>: it throws)
\*   found       the result of scanBundles: operation -> queryId
\*   writeOk     whether saveCache succeeds
\* Result: [mem, file, threw, error, info, ranDiscovery, wrote]
refreshQueryIds(mem, file, t, force, bundleUrls, found, writeOk) ==
    LET existing == getSnapshotInfo(mem, file, t)
        skip == SkipRefresh(force, existing.info)
        mem1 == IF force THEN mem ELSE existing.mem
        cache == [kind |-> "snapshot",
                  fetchedAt |-> ToISOString(t),
                  ttlMs |-> QUERY_ID_TTL_MS,
                  ids |-> NewIds(found),
                  discovery |-> [pages |-> DISCOVERY_PAGES, bundles |-> bundleUrls]]
    IN  IF skip THEN
            [mem |-> existing.mem, file |-> file, threw |-> FALSE, error |-> "",
             info |-> existing.info, ranDiscovery |-> FALSE, wrote |-> FALSE]
        ELSE IF bundleUrls = <<>> THEN
            [mem |-> mem1, file |-> file, threw |-> TRUE, error |-> NoBundlesMessage,
             info |-> NULL, ranDiscovery |-> TRUE, wrote |-> FALSE]
        ELSE IF DOMAIN found = {} THEN
            LET g == getSnapshotInfo(mem1, file, t)
            IN  [mem |-> g.mem, file |-> file, threw |-> FALSE, error |-> "",
                 info |-> g.info, ranDiscovery |-> TRUE, wrote |-> FALSE]
        ELSE IF ~writeOk THEN
            [mem |-> mem1, file |-> file, threw |-> TRUE, error |-> WriteFailedMessage,
             info |-> NULL, ranDiscovery |-> TRUE, wrote |-> FALSE]
        ELSE
            LET g == getSnapshotInfo(cache, Serialize(cache), t)
            IN  [mem |-> cache, file |-> Serialize(cache), threw |-> FALSE, error |-> "",
                 info |-> g.info, ranDiscovery |-> TRUE, wrote |-> TRUE]

----------------------------------------------------------------------------
(* XReaderClient: the read operations built on tryWithQueryIds *)

Methods == {"search", "getTweet", "getReplies", "getUserTweets", "getBookmarks"}

\* the operation name each method passes to tryWithQueryIds
OperationOf(m) ==
    CASE m = "search"        -> "SearchTimeline"
      [] m = "getTweet"      -> "TweetDetail"
      [] m = "getReplies"    -> "TweetDetail"
      [] m = "getUserTweets" -> "UserTweets"
      [] m = "getBookmarks"  -> "Bookmarks"

TweetDetailExtraId == "aFvUsJm2c-oDkJV75blV6g"
BookmarksExtraId == "tmd4ifV8RHltzn8ymGg1aw"

\* the extraIds each method passes to tryWithQueryIds
ExtraIds(m) ==
    CASE m = "getTweet"     -> <<TweetDetailExtraId>>
      [] m = "getBookmarks" -> <<BookmarksExtraId>>
      [] OTHER              -> <<>>

RECURSIVE DedupKeepLast(_)
DedupKeepLast(s) ==
    IF s = <<>> THEN <<>>
    ELSE LET rest == DedupKeepLast(Tail(s))
         IN  IF \E i \in 1..Len(rest) : rest[i] = Head(s) THEN rest
             ELSE <<Head(s)>> \o rest

RECURSIVE Dedup(_)
\* [...new Set(ids)]: first occurrences, in order
Dedup(s) ==
    IF s = <<>> THEN <<>>
    ELSE LET init == Dedup(SubSeq(s, 1, Len(s) - 1))
             x == s[Len(s)]
         IN  IF \E i \in 1..Len(init) : init[i] = x THEN init ELSE Append(init, x)

\* XReaderClient.getQueryIds: [mem, ids]
getQueryIds(mem, file, t, operation) ==
    LET g == getQueryId(mem, file, t, operation)
        fallback == DefaultId(operation)
        a == IF g.id # "" THEN <<g.id>> ELSE <<>>
        b == IF fallback # "" THEN <<fallback>> ELSE <<>>
    IN  [mem |-> g.mem, ids |-> Dedup(a \o b)]

RECURSIVE Join(_)
\* errors.map(e => e.message).join(', ')
Join(msgs) ==
    IF msgs = <<>> THEN ""
    ELSE IF Len(msgs) = 1 THEN msgs[1]
    ELSE msgs[1] \o ", " \o Join(Tail(msgs))

\* msg.includes('suspended') || msg.includes('not found'), on the messages of the model
IsSoftMessage(msg) ==
    msg \in {"User has been suspended", "User not found"}

\* What the server (or the network) answers to one request:
\*   [kind |-> "throw", msg]           fetch / resp.text() / resp.json() rejects
\*   [kind |-> "http", status, body]   a response with that status
\*   [kind |-> "json", errors, data]   a 2xx response with a JSON body
\* data is what the parser makes of the body: the tweets (their ids) and the
\* Bottom cursor ("" when there is none)
AbortMessage == "This operation was aborted"
Page(tweets, nextCursor) == [tweets |-> tweets, nextCursor |-> nextCursor]
NoPage == Page(<<>>, "")
Json(errors, data) == [kind |-> "json", errors |-> errors, data |-> data]

FailureResponses ==
    { [kind |-> "throw", msg |-> AbortMessage],
      [kind |-> "http", status |-> 404, body |-> "Not Found"],
      [kind |-> "http", status |-> 500, body |-> "Internal"] }

Responses ==
    FailureResponses \cup
    { Json(<<>>, Page(<<"t1">>, "c1")),
      Json(<<>>, NoPage),
      Json(<<"Rate limit exceeded", "Over capacity">>, NoPage),
      Json(<<"User has been suspended">>, NoPage),
      Json(<<"">>, NoPage) }

HttpError(resp) == "HTTP " \o ToString(resp.status) \o ": " \o resp.body

Returned(res, status, error) ==
    [threw |-> FALSE, msg |-> "", result |-> res, status |-> status, error |-> error]
Success(data) == [kind |-> "result", success |-> TRUE, error |-> "", data |-> data]
Failed(error) == [kind |-> "result", success |-> FALSE, error |-> error, data |-> NoPage]

\* the doRequest callback of each method, applied to the response it receives:
\* [threw, msg, result, status, error]; result NULL is the null of the source
doRequest(m, resp) ==
    IF resp.kind = "throw" THEN
        [threw |-> TRUE, msg |-> resp.msg, result |-> NULL, status |-> 0, error |-> ""]
    ELSE IF resp.kind = "http" /\ resp.status = 404 THEN Returned(NULL, 404, "")
    ELSE IF resp.kind = "http" THEN Returned(NULL, resp.status, HttpError(resp))
    ELSE CASE m = "search" ->
                IF Len(resp.errors) > 0 THEN Returned(NULL, 200, Join(resp.errors))
                ELSE Returned(Success(resp.data), 200, "")
           [] m = "getTweet" ->
                IF resp.data.tweets # <<>> THEN Returned(Success(resp.data), 200, "")
                ELSE Returned(NULL, 200, "Tweet not found in response")
           [] m = "getUserTweets" ->
                IF Len(resp.errors) > 0 /\ IsSoftMessage(Join(resp.errors))
                THEN Returned(Failed(Join(resp.errors)), 200, "")
                ELSE Returned(Success(resp.data), 200, "")
           [] OTHER -> Returned(Success(resp.data), 200, "")

\* what tryWithQueryIds does to its caller: return a value, or throw Error(message)
Thrown(message) == [kind |-> "exception", success |-> FALSE, error |-> message, data |-> NoPage]

ReadOperationNoCatch(outcome) == outcome

\* try { return await this.tryWithQueryIds(...) } catch (err) { return { success: false, error } }
ReadOperation(outcome) ==
    IF outcome.kind = "exception" THEN Failed(outcome.error) ELSE outcome

\* throw new Error(lastError || `Failed to execute ${operation}`)
FinalError(lastErr, operation) ==
    Thrown(IF lastErr # "" THEN lastErr ELSE "Failed to execute " \o operation)

\* tryWithQueryIds, lines 113-115: the candidates of the first pass: [mem, ids]
uniqueIds(mem, file, t, m) ==
    LET g == getQueryIds(mem, file, t, OperationOf(m))
    IN  [mem |-> g.mem, ids |-> Dedup(g.ids \o ExtraIds(m))]

\* tryWithQueryIds, lines 130-131: the candidates of the retry pass: [mem, ids]
freshIds(mem, file, t, m) == getQueryIds(mem, file, t, OperationOf(m))

SucceededNever(r) == FALSE

\* if (result !== null) return result
Succeeded(r) == r.result # NULL

NextHad404OnAnyMiss(h, pass, status) == h \/ pass = 1

\* if (status === 404) had404 = true   (first pass only)
NextHad404(h, pass, status) == h \/ (pass = 1 /\ status = 404)

\* if (error) lastError = error
NextLastError(lastErr, error) == IF error # "" THEN error ELSE lastErr

RefreshWantedNever(h) == FALSE
RefreshWantedAlways(h) == TRUE

\* after the first-pass loop: if (had404) { refresh and retry }
RefreshWanted(h) == h

----------------------------------------------------------------------------
(* Inputs of the model *)

\* bundle names discoverBundleUrls may find
BundleLists == { <<>>, <<"main.abc.js">>, <<"main.abc.js", "vendor.def.js">> }

RotatedId == "rotatedQid1"

EmptyMap == [o \in {} |-> ""]

\* results of scanBundles
FoundMaps ==
    { EmptyMap,
      [o \in Ops |-> RotatedId],
      [o \in {"SearchTimeline"} |-> RotatedId],
      [o \in {"TweetDetail", "Bookmarks"} |->
          IF o = "TweetDetail" THEN TweetDetailExtraId ELSE DEFAULT_QUERY_IDS[o]] }

Doc(fetchedAt, ttlMs, map) ==
    [kind |-> "doc", fetchedAt |-> fetchedAt, ttlMs |-> ttlMs,
     ids |-> [kind |-> "obj", map |-> [o \in DOMAIN map |-> Str(map[o])]],
     discovery |-> [kind |-> "obj", pages |-> List(StrAll(DISCOVERY_PAGES)),
                    bundles |-> List(StrAll(<<"main.old.js">>))]]

\* cache files the client may find when it starts
InitFiles ==
    { NoFile,
      [kind |-> "garbage"],
      Doc(ToISOString(0), [kind |-> "num", v |-> QUERY_ID_TTL_MS],
          [o \in {"TweetDetail", "UserTweets"} |-> "staleQid0"]) }

----------------------------------------------------------------------------
(* The paginated operations and the user lookup *)

PagedMethods == {"searchAll", "getUserTweetsAll", "getBookmarksAll"}

\* the single-page operation each pagination loop calls
InnerMethod(name) ==
    CASE name = "searchAll"        -> "search"
      [] name = "getUserTweetsAll" -> "getUserTweets"
      [] name = "getBookmarksAll"  -> "getBookmarks"

\* await this.sleep(ms) at the end of an iteration; 0: the loop has none
SleepMs(name) ==
    CASE name = "searchAll"        -> 0
      [] name = "getUserTweetsAll" -> 1000
      [] name = "getBookmarksAll"  -> 500

\* count: a number, or Infinity (the default of getBookmarksAll)
Infinity == [inf |-> TRUE, v |-> 0]
Count(n) == [inf |-> FALSE, v |-> n]
\* n < count
Below(n, count) == count.inf \/ n < count.v

RECURSIVE AccumulateSeenToo(_, _, _)
AccumulateSeenToo(tweets, st, count) ==
    IF tweets = <<>> THEN st
    ELSE LET t == Head(tweets)
             st2 == [all |-> Append(st.all, t), seen |-> st.seen \cup {t},
                     added |-> st.added + 1]
         IN  IF ~Below(Len(st2.all), count) THEN st2
             ELSE AccumulateSeenToo(Tail(tweets), st2, count)

RECURSIVE Accumulate(_, _, _)
\* for (const t of result.tweets ?? []) { skip seen; push; added++; break at count }
Accumulate(tweets, st, count) ==
    IF tweets = <<>> THEN st
    ELSE LET t == Head(tweets)
         IN  IF t \in st.seen THEN Accumulate(Tail(tweets), st, count)
             ELSE LET st2 == [all |-> Append(st.all, t), seen |-> st.seen \cup {t},
                              added |-> st.added + 1]
                  IN  IF ~Below(Len(st2.all), count) THEN st2
                      ELSE Accumulate(Tail(tweets), st2, count)

\* the frame of a pagination loop: its parameters and locals, and as observation
\* the cursor of every page request made (requested)
NoOuter == [kind |-> "none"]
Frame(name, count, maxPages) ==
    [kind |-> "all", name |-> name, count |-> count, maxPages |-> maxPages,
     all |-> <<>>, seen |-> {}, cursor |-> "", pages |-> 0,
     requested |-> <<>>]

\* getUserByUsername: the GraphQL ids and the REST urls it walks
UserGraphqlIds == <<"xc8f1g7BYqr6VTzTbvNlGw", "qW5u-DAuXpMEG0zA1F7UGQ", "sLVLhk0bGj3MVFEKTdax1w">>
UserRestUrls == <<"https://x.com/i/api/1.1/users/show.json", "https://api.twitter.com/1.1/users/show.json">>
Handle == "jack"

\* answers to a user lookup: throw, a non-2xx status, or a JSON body with
\*   unavailable  data.user.result.__typename === 'UserUnavailable'
\*   id, name     rest_id / id_str and screen_name present
\*   errors       the errors list
UserJson(unavailable, id, name, errors) ==
    [kind |-> "json", unavailable |-> unavailable, id |-> id, name |-> name, errors |-> errors]
UserResponses ==
    { [kind |-> "throw", msg |-> AbortMessage],
      [kind |-> "http", status |-> 500, body |-> "Internal"],
      UserJson(TRUE, FALSE, FALSE, <<>>),
      UserJson(FALSE, TRUE, TRUE, <<>>),
      UserJson(FALSE, TRUE, FALSE, <<>>),
      UserJson(FALSE, FALSE, FALSE, <<"Rate limit exceeded">>) }

UserFound == [kind |-> "result", success |-> TRUE, error |-> "", data |-> NoPage]

----------------------------------------------------------------------------
(* Actions *)

NoCall == [call |-> "none"]
NoSave == [kind |-> "idle"]
NoRead == [kind |-> "none"]
NoScan == [phase |-> "idle"]

\* what a call of refreshQueryIds did, r being its result: the state before it, its
\* inputs (found: the identifiers of a scan that led to a write), and how the
\* discovery failed ("none" when it did not run or did not fail);
\* for a call of getQueryId, id is the value returned and after is the failure of
\* the refresh that came right before it
Observe(call, force, op, r, bundleUrls, found, writeOk) ==
    [call |-> call, force |-> force, op |-> op, t |-> now,
     preMem |-> memoryCache, preDisk |-> disk, id |-> "", after |-> "none",
     threw |-> r.threw, error |-> r.error, info |-> r.info,
     ranDiscovery |-> r.ranDiscovery, wrote |-> r.wrote,
     found |-> IF r.wrote THEN found ELSE EmptyMap,
     failure |-> IF ~r.ranDiscovery THEN "none"
                 ELSE IF bundleUrls = <<>> THEN "noBundles"
                 ELSE IF DOMAIN found = {} THEN "noIds"
                 ELSE IF ~writeOk THEN "write"
                 ELSE "none"]

Pass == IF pc = "retryPass" THEN 2 ELSE 1

\* the single-page operation ends with outcome: its caller (the user of the
\* client, or the pagination loop in outer') receives the value
Finish(outcome) ==
    /\ pc' = IF outer'.kind = "all" THEN "page" ELSE "done"
    /\ result' = ReadOperation(outcome)

\* tryWithQueryIds starts for method m: it builds its candidates (lines 113-118)
Begin(m) ==
    /\ LET u == uniqueIds(memoryCache, disk, now, m)
       IN  /\ memoryCache' = u.mem
           /\ ids' = u.ids
           /\ IF u.ids = <<>>
              THEN Finish(FinalError("", OperationOf(m)))
              ELSE pc' = "firstPass" /\ result' = NULL
    /\ method' = m
    /\ idx' = 1
    /\ lastError' = ""
    /\ had404' = FALSE
    /\ log' = <<>>
    /\ observed' = ""
    /\ refreshCalls' = 0
    /\ last' = NoCall

\* search / getTweet / getReplies / getUserTweets / getBookmarks is called
Call(m) ==
    /\ pc = "idle"
    /\ outer' = NoOuter
    /\ Begin(m)
    /\ UNCHANGED <<disk, now>>
    /\ UNCHANGED <<saveVars, parseVars, scan>>

\* how an attempt ended, for the log
OutcomeKind(r) ==
    IF r.threw THEN "throw"
    ELSE IF r.result # NULL THEN "ok"
    ELSE IF r.status = 404 THEN "404"
    ELSE IF r.error # "" THEN "error"
    ELSE "silent"

\* one iteration of a for-loop of tryWithQueryIds (lines 120-125, 131-135):
\* doRequest(qid) receives resp
Attempt(resp) ==
    /\ pc \in {"firstPass", "retryPass"}
    /\ idx <= Len(ids)
    /\ UNCHANGED outer
    /\ LET r == doRequest(method, resp)
           h == NextHad404(had404, Pass, r.status)
           e == NextLastError(lastError, r.error)
       IN  /\ log' = Append(log, [pass |-> Pass, qid |-> ids[idx], out |-> OutcomeKind(r),
                                  value |-> r.result, status |-> r.status,
                                  errors |-> IF resp.kind = "json" THEN resp.errors
                                             ELSE <<>>])
           /\ observed' = (IF r.threw THEN r.msg
                           ELSE IF r.error # "" THEN r.error ELSE observed)
           /\ IF r.threw THEN
                  /\ Finish(Thrown(r.msg))
                  /\ UNCHANGED <<idx, lastError, had404>>
              ELSE IF Succeeded(r) THEN
                  /\ Finish(r.result)
                  /\ UNCHANGED <<idx, lastError, had404>>
              ELSE
                  /\ idx' = idx + 1
                  /\ lastError' = e
                  /\ had404' = h
                  /\ IF idx + 1 <= Len(ids) THEN UNCHANGED <<pc, result>>
                     ELSE IF Pass = 1 /\ RefreshWanted(h) THEN pc' = "refresh" /\ UNCHANGED result
                     ELSE Finish(FinalError(e, OperationOf(method)))
    /\ UNCHANGED <<disk, memoryCache, now, last, method, ids, refreshCalls>>
    /\ UNCHANGED <<saveVars, parseVars, scan>>

\* await refreshQueryIds({ force: true }); const freshIds = await this.getQueryIds(operation)
Refresh(bundleUrls, found, writeOk) ==
    /\ pc = "refresh"
    /\ UNCHANGED outer
    /\ refreshCalls' = refreshCalls + 1
    /\ LET r == refreshQueryIds(memoryCache, disk, now, TRUE, bundleUrls, found, writeOk)
           f == freshIds(r.mem, r.file, now, method)
       IN  /\ disk' = r.file
           /\ last' = Observe("refresh", TRUE, "", r, bundleUrls, found, writeOk)
           /\ IF r.threw THEN
                  /\ memoryCache' = r.mem
                  /\ Finish(Thrown(r.error))
                  /\ UNCHANGED <<ids, idx>>
              ELSE
                  /\ memoryCache' = f.mem
                  /\ ids' = f.ids
                  /\ idx' = 1
                  /\ IF f.ids = <<>>
                     THEN Finish(FinalError(lastError, OperationOf(method)))
                     ELSE pc' = "retryPass" /\ UNCHANGED result
    /\ UNCHANGED <<now, method, lastError, had404, log, observed>>
    /\ UNCHANGED <<saveVars, parseVars, scan>>

\* the pagination loop returns r to its caller
EndAll(r) ==
    /\ pc' = "done"
    /\ result' = r
    /\ UNCHANGED <<memoryCache, method, ids, idx, lastError, had404, log, observed,
                   refreshCalls, last>>

\* while (all.length < count) { result = await this.<inner>(...) ... }
\* return { success: true, tweets: all }
LoopHead(f) ==
    IF Below(Len(f.all), f.count)
    THEN /\ outer' = [f EXCEPT !.requested = Append(@, f.cursor)]
         /\ Begin(InnerMethod(f.name))
    ELSE /\ outer' = f
         /\ EndAll(Success(Page(f.all, "")))

EndOfPagesIgnoringCursor(next, cursor, added) == next = "" \/ added = 0
EndOfPagesIgnoringAdded(next, cursor, added) == next = "" \/ next = cursor

\* if (!result.nextCursor || result.nextCursor === cursor || added === 0) break
EndOfPages(next, cursor, added) == next = "" \/ next = cursor \/ added = 0

\* searchAll / getUserTweetsAll / getBookmarksAll is called
CallAll(name, count, maxPages) ==
    /\ pc = "idle"
    /\ LoopHead(Frame(name, count, maxPages))
    /\ UNCHANGED <<disk, now>>
    /\ UNCHANGED <<saveVars, parseVars, scan>>

\* the rest of one iteration of the pagination loop, once the page is there
PageStep ==
    /\ pc = "page"
    /\ IF ~result.success THEN
           /\ outer' = outer
           /\ EndAll(Failed(result.error))
       ELSE
           LET st == Accumulate(result.data.tweets,
                                [all |-> outer.all, seen |-> outer.seen, added |-> 0],
                                outer.count)
               next == result.data.nextCursor
               f == [outer EXCEPT !.all = st.all, !.seen = st.seen, !.pages = @ + 1]
           IN  IF EndOfPages(next, outer.cursor, st.added) THEN
                   /\ outer' = f
                   /\ EndAll(Success(Page(f.all, "")))
               ELSE IF f.maxPages # 0 /\ f.pages >= f.maxPages THEN
                   /\ outer' = f
                   /\ EndAll(Success(Page(f.all, next)))
               ELSE IF SleepMs(f.name) > 0 THEN
                   /\ outer' = [f EXCEPT !.cursor = next]
                   /\ pc' = "sleep"
                   /\ UNCHANGED <<memoryCache, method, ids, idx, lastError, had404, log,
                                  observed, refreshCalls, result, last>>
               ELSE LoopHead([f EXCEPT !.cursor = next])
    /\ UNCHANGED <<disk, now>>
    /\ UNCHANGED <<saveVars, parseVars, scan>>

\* the sleep of the pagination loop is over: next iteration
Wake ==
    /\ pc = "sleep"
    /\ LoopHead(outer)
    /\ UNCHANGED <<disk, now>>
    /\ UNCHANGED <<saveVars, parseVars, scan>>

\* getUserByUsername is called
CallUser ==
    /\ pc = "idle"
    /\ pc' = "userGql"
    /\ method' = "getUserByUsername"
    /\ outer' = NoOuter
    /\ idx' = 1
    /\ lastError' = ""
    /\ UNCHANGED <<disk, memoryCache, now, last, ids, had404, log, observed, refreshCalls,
                   result>>
    /\ UNCHANGED <<saveVars, parseVars, scan>>

\* getUserByUsername: one iteration of the loop over graphqlIds (lines 447-481)
UserGql(resp) ==
    /\ pc = "userGql"
    /\ LET e == IF resp.kind = "throw" THEN resp.msg
                ELSE IF resp.kind = "http" THEN "HTTP " \o ToString(resp.status)
                ELSE IF Len(resp.errors) > 0 THEN Join(resp.errors)
                ELSE lastError
       IN  IF resp.kind = "json" /\ resp.unavailable THEN
               /\ pc' = "done"
               /\ result' = Failed("User @" \o Handle \o " not found or unavailable")
               /\ UNCHANGED <<idx, lastError>>
           ELSE IF resp.kind = "json" /\ resp.id /\ resp.name THEN
               /\ pc' = "done"
               /\ result' = UserFound
               /\ UNCHANGED <<idx, lastError>>
           ELSE
               /\ lastError' = e
               /\ IF idx < Len(UserGraphqlIds)
                  THEN pc' = "userGql" /\ idx' = idx + 1
                  ELSE pc' = "userRest" /\ idx' = 1
               /\ UNCHANGED result
    /\ UNCHANGED <<disk, memoryCache, now, last, method, ids, had404, log, observed,
                   refreshCalls, outer>>
    /\ UNCHANGED <<saveVars, parseVars, scan>>

\* getUserByUsername: one iteration of the loop over restUrls (lines 489-506)
UserRest(resp) ==
    /\ pc = "userRest"
    /\ IF resp.kind = "json" /\ resp.id THEN
           /\ pc' = "done"
           /\ result' = UserFound
           /\ UNCHANGED idx
       ELSE IF idx < Len(UserRestUrls) THEN
           /\ idx' = idx + 1
           /\ UNCHANGED <<pc, result>>
       ELSE
           /\ pc' = "done"
           /\ result' = Failed(IF lastError # "" THEN lastError
                               ELSE "Unknown error looking up user")
           /\ UNCHANGED idx
    /\ UNCHANGED <<disk, memoryCache, now, last, method, ids, lastError, had404, log,
                   observed, refreshCalls, outer>>
    /\ UNCHANGED <<saveVars, parseVars, scan>>

\* the caller takes the result; the client is ready for the next operation
Return ==
    /\ pc = "done"
    /\ pc' = "idle"
    /\ method' = "none"
    /\ ids' = <<>>
    /\ idx' = 1
    /\ lastError' = ""
    /\ had404' = FALSE
    /\ log' = <<>>
    /\ observed' = ""
    /\ refreshCalls' = 0
    /\ outer' = NoOuter
    /\ result' = NULL
    /\ last' = NoCall
    /\ UNCHANGED <<disk, memoryCache, now>>
    /\ UNCHANGED <<saveVars, parseVars, scan>>

----------------------------------------------------------------------------
(* Spec: one client issuing single-page read operations *)

ClientIdle ==
    /\ memoryCache = NULL
    /\ now = 0
    /\ last = NoCall
    /\ pc = "idle"
    /\ method = "none"
    /\ ids = <<>>
    /\ idx = 1
    /\ lastError = ""
    /\ had404 = FALSE
    /\ log = <<>>
    /\ observed = ""
    /\ refreshCalls = 0
    /\ outer = NoOuter
    /\ result = NULL
    /\ save = NoSave
    /\ seen = NoRead
    /\ input = NULL
    /\ earlier = NULL
    /\ output = NULL
    /\ scan = NoScan

Init ==
    /\ disk \in InitFiles
    /\ ClientIdle

Next ==
    \/ \E m \in Methods : Call(m)
    \/ \E resp \in Responses : Attempt(resp)
    \/ \E b \in BundleLists, f \in FoundMaps, w \in BOOLEAN : Refresh(b, f, w)
    \/ Return

Spec == Init /\ [][Next]_vars

----------------------------------------------------------------------------
(* SpecOps: one client issuing any of its nine read operations *)

MaxTweets == 3
MaxCount == 2
MaxMaxPages == 1

TweetIds == {"t" \o ToString(i) : i \in 1..MaxTweets}
Cursors == {"", "c1", "c2"}

RECURSIVE SeqsUpTo(_, _)
\* the duplicate-free sequences over S of length at most n
SeqsUpTo(S, n) ==
    IF n = 0 THEN {<<>>}
    ELSE LET shorter == SeqsUpTo(S, n - 1)
         IN  shorter \cup {Append(q, x) : q \in shorter, x \in S}

NoDup(q) == \A i, j \in 1..Len(q) : i # j => q[i] # q[j]

\* what a page may hold: the first MaxTweets - 1 tweets in any order and number,
\* or any one tweet
PageTweets ==
    {q \in SeqsUpTo({"t" \o ToString(i) : i \in 1..(MaxTweets - 1)}, MaxTweets - 1) : NoDup(q)}
    \cup {<<t>> : t \in TweetIds}

Pages == {Page(q, c) : q \in PageTweets, c \in Cursors}

\* the answers to a request: a throw, a 404, a page, or a soft error (the other
\* HTTP failures are answers of Spec)
OpsResponses ==
    {r \in FailureResponses : r.kind = "throw" \/ r.status = 404} \cup {Json(<<>>, p) : p \in Pages}
    \cup {Json(<<"User has been suspended">>, NoPage)}

OpsFoundMaps == {EmptyMap, [o \in Ops |-> RotatedId]}
OpsBundleLists == {<<>>, <<"main.abc.js">>}

InitOps ==
    /\ disk = NoFile
    /\ ClientIdle

NextOps ==
    \/ \E m \in Methods : Call(m)
    \/ \E name \in PagedMethods, c \in {Count(n) : n \in 0..MaxCount} \cup {Infinity},
          mp \in 0..MaxMaxPages : CallAll(name, c, mp)
    \/ CallUser
    \/ \E resp \in OpsResponses : Attempt(resp)
    \/ \E b \in OpsBundleLists, f \in OpsFoundMaps : Refresh(b, f, TRUE)
    \/ PageStep
    \/ Wake
    \/ \E resp \in UserResponses : UserGql(resp)
    \/ \E resp \in UserResponses : UserRest(resp)
    \/ Return

SpecOps == InitOps /\ [][NextOps]_vars

----------------------------------------------------------------------------
(* SpecCache: the query-id cache module called directly, with time passing *)

\* the hours at which the clock is read
ClockHours == {0, 1, 2, 23, 24, 25}
Clock == {h * HourMs : h \in ClockHours}

SomeIds == [o \in {"TweetDetail", "UserTweets"} |-> "staleQid0"]
TtlNum(v) == [kind |-> "num", v |-> v]

\* an ids object holding a usable value, a value of foreign characters, a blank
\* one, a padded one, one that is no string, and one for an operation without default
MixedIds ==
    [kind |-> "obj",
     map |-> [o \in {"TweetDetail", "UserTweets", "SearchTimeline", "Bookmarks",
                     "CreateTweet", "Likes"} |->
                CASE o = "TweetDetail"    -> Str("staleQid0")
                  [] o = "UserTweets"     -> Str("  ")
                  [] o = "SearchTimeline" -> Str(" rotatedQid1 ")
                  [] o = "Bookmarks"      -> NotAString
                  [] o = "CreateTweet"    -> Str("legacyQid9")
                  [] o = "Likes"          -> Str("../1.1/x?y=")]]

Discovery(pages, bundles) == [kind |-> "obj", pages |-> pages, bundles |-> bundles]

\* a document with a fetch time and TTL in order
RawDoc(rawIds, discovery) ==
    [kind |-> "doc", fetchedAt |-> ToISOString(0), ttlMs |-> TtlNum(QUERY_ID_TTL_MS),
     ids |-> rawIds, discovery |-> discovery]

\* cache files the process may find: absent, unreadable, well-formed with several
\* fetch times and TTLs, and lacking a required field
CacheFiles ==
    { NoFile,
      [kind |-> "garbage"],
      Doc(ToISOString(0), TtlNum(QUERY_ID_TTL_MS), SomeIds),
      Doc(ToISOString(0), TtlNum(HourMs), SomeIds),
      Doc(ToISOString(24 * HourMs), TtlNum(HourMs), SomeIds),
      Doc(ToISOString(0), TtlNum(0 - HourMs), SomeIds),
      Doc(ToISOString(0), TtlNum(0), SomeIds),
      Doc([kind |-> "text"], TtlNum(QUERY_ID_TTL_MS), SomeIds),
      Doc(Absent, TtlNum(QUERY_ID_TTL_MS), SomeIds),
      Doc(ToISOString(0), Absent, SomeIds),
      Doc([kind |-> "empty"], TtlNum(QUERY_ID_TTL_MS), SomeIds),
      RawDoc(Absent, Discovery(List(<<>>), List(<<>>))),
      RawDoc(MixedIds, Absent),
      RawDoc(MixedIds, Discovery(Absent, List(<<>>))),
      RawDoc(MixedIds, Discovery(List(<<>>), Absent)),
      RawDoc(MixedIds, Discovery(List(<<Str("https://x.com/explore"), NotAString>>),
                                 List(<<NotAString, Str("main.old.js")>>))) }

\* the operations getQueryId is asked for: cached and hardcoded, hardcoded only,
\* cached only, and neither
QueryOps == {"TweetDetail", "UserTweets", "SearchTimeline", "Bookmarks", "CreateTweet",
             "Unknown"}

\* a webpack module exporting an operation, as the bundles hold them
Exported(op, qid) ==
    <<"e.exports={", "queryId", ":", "\"", qid, "\"", ",", "operationName", ":", "\"",
      op, "\"", ",", "operationType", ":", "\"", "query", "\"", "}">>
Js(js) == [kind |-> "js", js |-> js]

\* what the bundles hold: nothing fetched, every operation with a new identifier,
\* and a bundle with unusable, unwanted and repeated matches
CacheBundleContents ==
    { <<[kind |-> "failed"]>>,
      <<Js(Exported("SearchTimeline", RotatedId) \o Exported("TweetDetail", RotatedId)
           \o Exported("UserTweets", RotatedId) \o Exported("Bookmarks", RotatedId))>>,
      <<[kind |-> "failed"],
        Js(Exported("TweetDetail", "bad id!") \o Exported("CreateTweet", "legacyQid9")
           \o Exported("TweetDetail", RotatedId) \o Exported("TweetDetail", "staleQid0"))>> }

CacheFoundMaps == {scanBundles(c, DISCOVERY_OPERATIONS, EmptyMap) : c \in CacheBundleContents}
CacheBundleLists == {<<>>, <<"main.abc.js">>}

NoResult == [threw |-> FALSE, error |-> "", info |-> NULL, ranDiscovery |-> FALSE,
             wrote |-> FALSE]

\* getSnapshotInfo() is called
CacheGetSnapshotInfo ==
    /\ LET g == getSnapshotInfo(memoryCache, disk, now)
       IN  /\ memoryCache' = g.mem
           /\ last' = Observe("getSnapshotInfo", FALSE, "", [NoResult EXCEPT !.info = g.info],
                              <<>>, EmptyMap, TRUE)
    /\ UNCHANGED <<disk, now, pc, method, ids, idx, lastError, had404, log, observed,
                   refreshCalls, outer, result>>
    /\ UNCHANGED <<saveVars, parseVars, scan>>

\* getQueryId(operation) is called
CacheGetQueryId(operation) ==
    /\ LET g == getQueryId(memoryCache, disk, now, operation)
       IN  /\ memoryCache' = g.mem
           /\ last' = [Observe("getQueryId", FALSE, operation, NoResult, <<>>, EmptyMap, TRUE)
                          EXCEPT !.id = g.id,
                                 !.after = IF last.call = "refresh" THEN last.failure
                                           ELSE "none"]
    /\ UNCHANGED <<disk, now, pc, method, ids, idx, lastError, had404, log, observed,
                   refreshCalls, outer, result>>
    /\ UNCHANGED <<saveVars, parseVars, scan>>

\* refreshQueryIds({ force }) is called
CacheRefresh(force, bundleUrls, found, writeOk) ==
    /\ LET r == refreshQueryIds(memoryCache, disk, now, force, bundleUrls, found, writeOk)
       IN  /\ memoryCache' = r.mem
           /\ disk' = r.file
           /\ last' = Observe("refresh", force, "", r, bundleUrls, found, writeOk)
    /\ UNCHANGED <<now, pc, method, ids, idx, lastError, had404, log, observed,
                   refreshCalls, outer, result>>
    /\ UNCHANGED <<saveVars, parseVars, scan>>

\* clearMemory() is called
CacheClearMemory ==
    /\ memoryCache' = NULL
    /\ last' = NoCall
    /\ UNCHANGED <<disk, now, pc, method, ids, idx, lastError, had404, log, observed,
                   refreshCalls, outer, result>>
    /\ UNCHANGED <<saveVars, parseVars, scan>>

\* time passes
Tick(t) ==
    /\ t > now
    /\ now' = t
    /\ last' = NoCall
    /\ UNCHANGED <<disk, memoryCache, pc, method, ids, idx, lastError, had404, log, observed,
                   refreshCalls, outer, result>>
    /\ UNCHANGED <<saveVars, parseVars, scan>>

InitCache ==
    /\ disk \in CacheFiles
    /\ ClientIdle

NextCache ==
    \/ CacheGetSnapshotInfo
    \/ \E force \in BOOLEAN, b \in CacheBundleLists, f \in CacheFoundMaps, w \in BOOLEAN :
          CacheRefresh(force, b, f, w)
    \/ CacheClearMemory
    \/ \E operation \in QueryOps : CacheGetQueryId(operation)
    \/ \E t \in Clock : Tick(t)

SpecCache == InitCache /\ [][NextCache]_vars

----------------------------------------------------------------------------
(* SpecScan: a forced refresh with the fetches of scanBundles as separate steps *)

BATCH == 6
MaxBundles == 7

\* urls.slice(i, i + BATCH), as positions of urls (1-based)
BatchAt(urls, i) == {k \in 1..Len(urls) : i <= k /\ k < i + BATCH}

\* batch.map(async (url) => { if (results.size === wantedOps.size) return; ...
\* fetchText(url) ...: every callback of the batch runs up to its first await
StartBatch(s, i) ==
    [s EXCEPT !.i = i,
              !.status = [k \in DOMAIN s.status |->
                             IF k \notin BatchAt(s.urls, i) THEN s.status[k]
                             ELSE IF DOMAIN s.results = DISCOVERY_OPERATIONS THEN "skipped"
                             ELSE "inflight"]]

Settled == {"done", "failed", "skipped"}

BatchSettledOnFirst(s) == \E k \in BatchAt(s.urls, s.i) : s.status[k] \in Settled

\* await Promise.all(...): every callback of the batch has returned
BatchSettled(s) == \A k \in BatchAt(s.urls, s.i) : s.status[k] \in Settled

\* the locals of scanBundles(urls, wantedOps) before its loop; contents[k] is what
\* the fetch of urls[k] will give, bundle[op] the bundle results holds for op
NewScan(urls, contents) ==
    [phase |-> "scanning", urls |-> urls, contents |-> contents, i |-> 1,
     status |-> [k \in 1..Len(urls) |-> "waiting"],
     results |-> EmptyMap, bundle |-> EmptyMap]

\* the rest of refreshQueryIds once scanBundles has returned (lines 215-238), or
\* once discoverBundleUrls has thrown
EndRefresh(s, writeOk) ==
    LET r == refreshQueryIds(memoryCache, disk, now, TRUE, s.urls, s.results, writeOk)
    IN  /\ memoryCache' = r.mem
        /\ disk' = r.file
        /\ last' = Observe("refresh", TRUE, "", r, s.urls, s.results, writeOk)
        /\ scan' = [s EXCEPT !.phase = "done"]

\* refreshQueryIds({ force: true }) is called: discoverBundleUrls finds urls and
\* scanBundles starts its first batch
RefreshBegins(urls, contents) ==
    /\ scan.phase = "idle"
    /\ IF urls = <<>>
       THEN EndRefresh(NewScan(urls, contents), TRUE)
       ELSE /\ scan' = StartBatch(NewScan(urls, contents), 1)
            /\ UNCHANGED <<disk, memoryCache, last>>
    /\ UNCHANGED <<now, clientVars, saveVars, parseVars>>

\* the fetch of urls[k] settles: extractFromBundle on its text, or the catch
FetchSettles(k) ==
    /\ scan.phase = "scanning"
    /\ k \in DOMAIN scan.status
    /\ scan.status[k] = "inflight"
    /\ LET c == scan.contents[k]
           r == IF c.kind = "js"
                THEN extractFromBundle(c.js, DISCOVERY_OPERATIONS, scan.results)
                ELSE scan.results
       IN  scan' = [scan EXCEPT
                       !.status[k] = IF c.kind = "js" THEN "done" ELSE "failed",
                       !.results = r,
                       !.bundle = [o \in DOMAIN r |->
                                      IF o \in DOMAIN scan.bundle THEN scan.bundle[o]
                                      ELSE scan.urls[k]]]
    /\ UNCHANGED <<disk, memoryCache, now, last, clientVars, saveVars, parseVars>>

\* Promise.all of the batch resolves: break, or the next batch, or the end of urls
BatchAwaited ==
    /\ scan.phase = "scanning"
    /\ BatchSettled(scan)
    /\ scan' = IF DOMAIN scan.results = DISCOVERY_OPERATIONS
                  \/ scan.i + BATCH > Len(scan.urls)
               THEN [scan EXCEPT !.phase = "scanned"]
               ELSE StartBatch(scan, scan.i + BATCH)
    /\ UNCHANGED <<disk, memoryCache, now, last, clientVars, saveVars, parseVars>>

\* scanBundles has returned: refreshQueryIds goes on to its end
RefreshEnds(writeOk) ==
    /\ scan.phase = "scanned"
    /\ EndRefresh(scan, writeOk)
    /\ UNCHANGED <<now, clientVars, saveVars, parseVars>>

\* the caller of refreshQueryIds has its answer
ScanReturn ==
    /\ scan.phase = "done"
    /\ scan' = NoScan
    /\ last' = NoCall
    /\ UNCHANGED <<disk, memoryCache, now, clientVars, saveVars, parseVars>>

BundleNames(n) == [k \in 1..n |-> "b" \o ToString(k) \o ".js"]
FetchFailed == [kind |-> "failed"]
OtherId == "otherQid2"

\* bundles that resolve the operations between them, two of the first batch naming
\* SearchTimeline with different identifiers, and Bookmarks only past the first batch
SpreadContents ==
    [k \in 1..MaxBundles |->
        CASE k = 1 -> Js(Exported("SearchTimeline", RotatedId))
          [] k = 2 -> Js(Exported("SearchTimeline", OtherId) \o Exported("TweetDetail", RotatedId))
          [] k = 3 -> FetchFailed
          [] k = 4 -> Js(Exported("UserTweets", RotatedId))
          [] k = 5 -> Js(Exported("CreateTweet", "legacyQid9"))
          [] k = 6 -> FetchFailed
          [] OTHER -> Js(Exported("Bookmarks", RotatedId))]

\* the first bundle resolves every operation
AllInFirstContents ==
    [k \in 1..MaxBundles |->
        CASE k = 1 -> Js(Exported("SearchTimeline", RotatedId)
                         \o Exported("TweetDetail", RotatedId)
                         \o Exported("UserTweets", RotatedId)
                         \o Exported("Bookmarks", RotatedId))
          [] k = 4 -> FetchFailed
          [] OTHER -> Js(Exported("Bookmarks", OtherId))]

\* what discoverBundleUrls finds and what the fetches of the bundles give
Scans ==
    { <<<<>>, <<>>>>,
      <<BundleNames(2), <<FetchFailed, Js(Exported("CreateTweet", "legacyQid9"))>>>>,
      <<BundleNames(MaxBundles), SpreadContents>>,
      <<BundleNames(MaxBundles), AllInFirstContents>> }

InitScan ==
    /\ disk \in {NoFile, Doc(ToISOString(0), TtlNum(QUERY_ID_TTL_MS), SomeIds)}
    /\ ClientIdle

NextScan ==
    \/ \E sc \in Scans : RefreshBegins(sc[1], sc[2])
    \/ \E k \in 1..MaxBundles : FetchSettles(k)
    \/ BatchAwaited
    \/ \E w \in BOOLEAN : RefreshEnds(w)
    \/ ScanReturn

SpecScan == InitScan /\ [][NextScan]_vars

----------------------------------------------------------------------------
(* Properties of the dispatch (Spec) *)

Finished == pc = "done" /\ method \in Methods
LogOf(p) == SelectSeq(log, LAMBDA e : e.pass = p)
AnyOut(entries, kinds) == \E i \in 1..Len(entries) : entries[i].out \in kinds
AllOut(entries, kinds) == \A i \in 1..Len(entries) : entries[i].out \in kinds
GenericMessage == "Failed to execute " \o OperationOf(method)

\* C1: short-circuit. When the first identifier attempted yields a non-null result,
\* doRequest was invoked exactly once, refreshQueryIds was not invoked, and the
\* operation returns that very result.
C1_ShortCircuit ==
    (Finished /\ log # <<>> /\ log[1].out = "ok") =>
        /\ Len(log) = 1
        /\ refreshCalls = 0
        /\ result = log[1].value

\* a dispatch whose first identifier succeeded although the candidate list held more
C1_Witness ==
    Finished /\ log # <<>> /\ log[1].out = "ok" /\ Len(ids) > 1 /\ result.success

\* C2: when every identifier attempted, in the first pass and in the retry pass,
\* yields 404, exactly one forced refresh has happened by the time the dispatch
\* ends, and it ends in failure.
C2_OneRefreshWhenAll404 ==
    (Finished /\ log # <<>> /\ AllOut(log, {"404"})) =>
        /\ refreshCalls = 1
        /\ ~result.success

\* a dispatch that saw 404 on every candidate of both passes
C2_Witness ==
    /\ Finished /\ AllOut(log, {"404"})
    /\ Len(LogOf(1)) > 1 /\ Len(LogOf(2)) > 1
    /\ refreshCalls = 1

\* C3: within one dispatch refreshQueryIds({force: true}) is invoked at most once,
\* and only when the whole first-pass list was attempted without success and with
\* a 404 among the outcomes; a 404 of the retry pass triggers nothing further, and
\* a first pass without a 404 is followed by no refresh and no retry pass.
C3_RefreshOnlyAfter404 ==
    [][ /\ refreshCalls' > refreshCalls =>
              /\ refreshCalls = 0 /\ refreshCalls' = 1
              /\ Len(log) = Len(ids)
              /\ \A i \in 1..Len(log) : log[i].pass = 1 /\ log[i].qid = ids[i]
              /\ AllOut(log, {"404", "error", "silent"})
              /\ AnyOut(log, {"404"})
        /\ refreshCalls' <= 1
        /\ ~AnyOut(LogOf(1)', {"404"}) => (refreshCalls' = 0 /\ LogOf(2)' = <<>>)
      ]_vars

\* a dispatch that refreshed once and then saw another 404 in its retry pass
C3_Witness ==
    Finished /\ refreshCalls = 1 /\ AnyOut(LogOf(2), {"404"}) /\ AnyOut(LogOf(1), {"error"})

\* C4 (as claimed): an attempt that throws (timeout abort, connection failure,
\* unparsable body) counts as a failed attempt and the remaining candidates of the
\* list are still attempted: a dispatch never ends on a throwing attempt while
\* candidates of that pass are left.
C4_ThrowIsAFailureOutcome ==
    (Finished /\ log # <<>> /\ log[Len(log)].out = "throw") => idx >= Len(ids)

\* C5 (as claimed): a discovery failure of the refresh a dispatch triggered (no
\* bundle URLs, or no identifiers extracted) leaves the cache as it was and the
\* retry pass is still executed.
C5_DiscoveryFailureNotFatal ==
    (Finished /\ last.call = "refresh" /\ last.failure \in {"noBundles", "noIds"}) =>
        /\ disk = last.preDisk
        /\ LogOf(2) # <<>>

\* C7 (as claimed): a dispatch that ends unsuccessfully fails with the last non-empty
\* error message an attempt reported, and with the generic message exactly when no
\* attempt reported one.
C7_LastObservedError ==
    (Finished /\ (log = <<>> \/ log[Len(log)].out # "ok")) =>
        /\ ~result.success
        /\ result.error = (IF observed # "" THEN observed ELSE GenericMessage)

----------------------------------------------------------------------------
(* Properties of the read operations (SpecOps) *)

\* C6: every read operation hands its caller a result value, success = true or
\* success = false with an error message, whatever the network and the refresh do;
\* no exception leaves it, and none reaches a pagination loop from its page call.
C6_NoExceptionEscapes ==
    (pc \in {"done", "page"}) =>
        /\ result.kind = "result"
        /\ result.success \/ result.error # ""

\* a pagination loop ending in failure because the refresh of a page call threw
C6_Witness ==
    /\ pc = "done" /\ outer.kind = "all"
    /\ last.call = "refresh" /\ last.threw
    /\ ~result.success /\ result.error = NoBundlesMessage

(* SpecSave: refreshQueryIds writing the cache file piece by piece while this
   process and another one read it *)

SaveFiles == {NoFile, Doc(ToISOString(0), TtlNum(QUERY_ID_TTL_MS), SomeIds)}
SaveBundleLists == {<<"main.abc.js">>, <<"main.abc.js", "vendor.def.js">>}
SaveFoundMaps == {[o \in {"SearchTimeline"} |-> RotatedId]}

SaveBeginMemoryFirst(bundleUrls, found) ==
    /\ save.kind # "saving"
    /\ LET r == refreshQueryIds(memoryCache, disk, now, TRUE, bundleUrls, found, TRUE)
       IN  /\ r.wrote
           /\ memoryCache' = r.mem
           /\ save' = [kind |-> "saving", cache |-> r.mem,
                       text |-> Stringify(Serialize(r.mem)),
                       prevMem |-> memoryCache, prevFile |-> loadCache(disk)]
    /\ disk' = [kind |-> "text", tokens |-> <<>>]
    /\ UNCHANGED <<now, last, clientVars, seen, parseVars, scan>>

\* refreshQueryIds({ force: true }) up to writeFile opening the file, which empties it
SaveBegin(bundleUrls, found) ==
    /\ save.kind # "saving"
    /\ LET r == refreshQueryIds(memoryCache, disk, now, TRUE, bundleUrls, found, TRUE)
       IN  /\ r.wrote
           /\ save' = [kind |-> "saving", cache |-> r.mem,
                       text |-> Stringify(Serialize(r.mem)),
                       prevMem |-> memoryCache, prevFile |-> loadCache(disk)]
    /\ disk' = [kind |-> "text", tokens |-> <<>>]
    /\ UNCHANGED <<memoryCache, now, last, clientVars, seen, parseVars, scan>>

\* writeFile: the operating system has written the text up to token k
WriteUpTo(k) ==
    /\ save.kind = "saving"
    /\ k > Len(disk.tokens) /\ k <= Len(save.text)
    /\ disk' = [kind |-> "text", tokens |-> SubSeq(save.text, 1, k)]
    /\ UNCHANGED <<memoryCache, now, last, clientVars, saveVars, parseVars, scan>>

\* writeFile resolves; refreshQueryIds goes on to memoryCache = cache
SaveEnd ==
    /\ save.kind = "saving"
    /\ disk.tokens = save.text
    /\ memoryCache' = save.cache
    /\ save' = [save EXCEPT !.kind = "saved"]
    /\ UNCHANGED <<disk, now, last, clientVars, seen, parseVars, scan>>

\* writeFile rejects or the process is stopped: the file stays as far as it got
SaveInterrupted ==
    /\ save.kind = "saving"
    /\ disk.tokens # save.text
    /\ save' = [save EXCEPT !.kind = "failed"]
    /\ UNCHANGED <<disk, memoryCache, now, last, clientVars, seen, parseVars, scan>>

\* the complete snapshots there are while a save is under way or has ended: the
\* one this process held, the one the file held, and the one being written
Complete == IF save.kind = "idle" THEN {}
            ELSE {save.prevMem, save.prevFile, save.cache} \ {NULL}

PartlyWritten(file) == file.kind = "text" /\ ~Balanced(file.tokens)

\* getSnapshotInfo() called in this process, also while the write is in flight
ReadSelf ==
    /\ LET g == getSnapshotInfo(memoryCache, disk, now)
       IN  /\ memoryCache' = g.mem
           /\ seen' = [kind |-> "read", by |-> "self", during |-> save.kind,
                       partial |-> memoryCache = NULL /\ PartlyWritten(disk),
                       value |-> g.mem, complete |-> Complete]
    /\ UNCHANGED <<disk, now, last, clientVars, save, parseVars, scan>>

\* another process, its memoryCache empty, loads the file
ReadOther ==
    /\ seen' = [kind |-> "read", by |-> "other", during |-> save.kind,
                partial |-> PartlyWritten(disk), value |-> loadCache(disk),
                complete |-> Complete]
    /\ UNCHANGED <<disk, memoryCache, now, last, clientVars, save, parseVars, scan>>

\* clearMemory() between two refreshes
SaveClearMemory ==
    /\ save.kind # "saving"
    /\ memoryCache' = NULL
    /\ UNCHANGED <<disk, now, last, clientVars, saveVars, parseVars, scan>>

InitSave ==
    /\ disk \in SaveFiles
    /\ ClientIdle

NextSave ==
    \/ \E b \in SaveBundleLists, f \in SaveFoundMaps : SaveBegin(b, f)
    \/ \E k \in 1..(IF save.kind = "saving" THEN Len(save.text) ELSE 0) : WriteUpTo(k)
    \/ SaveEnd
    \/ SaveInterrupted
    \/ ReadSelf
    \/ ReadOther
    \/ SaveClearMemory

SpecSave == InitSave /\ [][NextSave]_vars

(* parser.ts: raw GraphQL nodes into Tweet and User records.
   A string-valued field of a raw node is Str(s), or Absent when it is undefined;
   an object-valued field is a record with a kind, or Absent. *)

\* firstNonEmpty(...values): the first string with text after trimming, trimmed
RECURSIVE firstNonEmpty(_)
firstNonEmpty(values) ==
    IF values = <<>> THEN Absent
    ELSE IF Head(values).kind = "str" /\ Trim(Head(values).s) # ""
    THEN Str(Trim(Head(values).s))
    ELSE firstNonEmpty(Tail(values))

\* a ?? b on two optional values
Coalesce(a, b) == IF a.kind # "absent" THEN a ELSE b

\* !v for an optional string: undefined and '' are falsy
Falsy(v) == v.kind = "absent" \/ (v.kind = "str" /\ v.s = "")

\* plainText.startsWith(title) over the texts of the model
StartsWith(text, prefix) ==
    \/ text = prefix
    \/ <<text, prefix>> \in {<<"Title and body", "Title">>}

\* extractNoteTweetText
extractNoteTweetText(res) ==
    LET note == res.note
    IN  IF note.kind = "absent" THEN Absent
        ELSE firstNonEmpty(<<note.text, note.richtext, note.rich_text, note.content>>)

\* extractArticleText
extractArticleText(res) ==
    LET article == res.article
    IN  IF article.kind = "absent" THEN Absent
        ELSE LET inner == Coalesce(article.inner, article)
                 title == firstNonEmpty(<<inner.title, article.title>>)
                 plainText == firstNonEmpty(<<inner.plain_text, article.plain_text,
                                              inner.body_text, inner.content_text,
                                              article.body_text, article.content_text>>)
             IN  IF plainText.kind = "str" /\ title.kind = "str"
                    /\ ~StartsWith(plainText.s, title.s)
                 THEN Str(title.s \o "\n" \o plainText.s)
                 ELSE Coalesce(plainText, title)

extractTweetTextLegacyFirst(res) ==
    Coalesce(firstNonEmpty(<<res.full_text>>),
             Coalesce(extractArticleText(res), extractNoteTweetText(res)))

\* extractTweetText: article ?? note ?? legacy.full_text
extractTweetText(res) ==
    Coalesce(extractArticleText(res),
             Coalesce(extractNoteTweetText(res), firstNonEmpty(<<res.full_text>>)))

\* A media entity is [kind |-> "media", type, media_url_https, sizes, video_info];
\* sizes is Absent or [kind |-> "sizes", large, medium, small], each Absent or
\* [kind |-> "size", w, h]; video_info is Absent or [kind |-> "video_info",
\* variants, duration_millis]; a variant is [kind |-> "variant", content_type, url,
\* bitrate]. A JSON
\* number is [kind |-> "num", v].
Number(n) == [kind |-> "num", v |-> n]

\* variants.filter(v => v.content_type === 'video/mp4' && typeof v.url === 'string')
RECURSIVE FilterMp4(_)
FilterMp4(variants) ==
    IF variants = <<>> THEN <<>>
    ELSE (IF Head(variants).content_type = Str("video/mp4") /\ Head(variants).url.kind = "str"
          THEN <<Head(variants)>> ELSE <<>>)
         \o FilterMp4(Tail(variants))

\* mp4s.filter(v => typeof v.bitrate === 'number')
RECURSIVE FilterBitrate(_)
FilterBitrate(mp4s) ==
    IF mp4s = <<>> THEN <<>>
    ELSE (IF Head(mp4s).bitrate.kind = "num" THEN <<Head(mp4s)>> ELSE <<>>)
         \o FilterBitrate(Tail(mp4s))

RECURSIVE InsertAscending(_, _)
InsertAscending(sorted, v) ==
    IF sorted = <<>> THEN <<v>>
    ELSE IF Head(sorted).bitrate.v - v.bitrate.v > 0
    THEN <<v>> \o sorted
    ELSE <<Head(sorted)>> \o InsertAscending(Tail(sorted), v)

\* one step of a stable sort by (a, b) => b.bitrate - a.bitrate: v goes before the
\* first element it must precede, behind the ones that compare equal to it
RECURSIVE InsertDescending(_, _)
InsertDescending(sorted, v) ==
    IF sorted = <<>> THEN <<v>>
    ELSE IF v.bitrate.v - Head(sorted).bitrate.v > 0
    THEN <<v>> \o sorted
    ELSE <<Head(sorted)>> \o InsertDescending(Tail(sorted), v)

\* .sort((a, b) => b.bitrate - a.bitrate): Array.prototype.sort is stable
RECURSIVE Sort(_)
Sort(rated) ==
    IF rated = <<>> THEN <<>>
    ELSE InsertDescending(Sort(SubSeq(rated, 1, Len(rated) - 1)), rated[Len(rated)])

\* the item extractMedia builds for one media entity
MediaItem(m) ==
    LET sizes == m.sizes
        has(k) == sizes.kind # "absent" /\ sizes[k].kind # "absent"
        size == IF has("large") THEN sizes.large
                ELSE IF has("medium") THEN sizes.medium
                ELSE Absent
        isVideo == /\ m.type \in {Str("video"), Str("animated_gif")}
                   /\ m.video_info.kind # "absent"
                   /\ m.video_info.variants.kind # "absent"
        mp4s == IF isVideo THEN FilterMp4(m.video_info.variants.items) ELSE <<>>
        rated == Sort(FilterBitrate(mp4s))
        best == IF rated # <<>> THEN rated[1]
                ELSE IF mp4s # <<>> THEN mp4s[1]
                ELSE Absent
    IN  [type |-> m.type.s,
         url |-> m.media_url_https.s,
         width |-> IF size.kind = "absent" THEN Absent ELSE size.w,
         height |-> IF size.kind = "absent" THEN Absent ELSE size.h,
         previewUrl |-> IF has("small") THEN Str(m.media_url_https.s \o ":small")
                        ELSE Absent,
         videoUrl |-> IF best.kind = "absent" THEN Absent ELSE best.url,
         durationMs |-> IF isVideo /\ m.video_info.duration_millis.kind = "num"
                        THEN m.video_info.duration_millis ELSE Absent]

\* the loop of extractMedia: entities without type or media_url_https are skipped
RECURSIVE MediaItems(_)
MediaItems(mediaEntities) ==
    IF mediaEntities = <<>> THEN <<>>
    ELSE (IF Falsy(Head(mediaEntities).type) \/ Falsy(Head(mediaEntities).media_url_https)
          THEN <<>> ELSE <<MediaItem(Head(mediaEntities))>>)
         \o MediaItems(Tail(mediaEntities))

\* extractMedia(result): the list of items, Absent for undefined
extractMedia(res) ==
    LET mediaEntities == Coalesce(res.extended_media, res.entities_media)
    IN  IF mediaEntities.kind = "absent" \/ mediaEntities.items = <<>> THEN Absent
        ELSE LET items == MediaItems(mediaEntities.items)
             IN  IF Len(items) > 0 THEN List(items) ELSE Absent

\* unwrapTweet
unwrapTweet(obj) ==
    IF obj.kind = "absent" THEN Absent
    ELSE IF obj.kind = "wrapper" THEN obj.tweet
    ELSE obj

FromCoreOrLegacy(userResult, field) ==
    IF userResult.kind = "absent" THEN Absent
    ELSE Coalesce(IF userResult.core.kind = "absent" THEN Absent
                  ELSE userResult.core[field],
                  IF userResult.legacy.kind = "absent" THEN Absent
                  ELSE userResult.legacy[field])

\* legacy?.screen_name ?? core?.screen_name, and the same for name
FromLegacyOrCore(userResult, field) ==
    IF userResult.kind = "absent" THEN Absent
    ELSE Coalesce(IF userResult.legacy.kind = "absent" THEN Absent
                  ELSE userResult.legacy[field],
                  IF userResult.core.kind = "absent" THEN Absent
                  ELSE userResult.core[field])

RECURSIVE parseTweetUnbounded(_, _)
parseTweetUnbounded(res, quoteDepth) ==
    IF res.kind = "absent" THEN NULL
    ELSE
    LET userResult == res.user
        username == FromLegacyOrCore(userResult, "screen_name")
        name == Coalesce(FromLegacyOrCore(userResult, "name"), username)
        userId == IF userResult.kind = "absent" THEN Absent ELSE userResult.rest_id
        text == extractTweetText(res)
        quotedRaw == unwrapTweet(res.quoted)
    IN  IF Falsy(res.rest_id) \/ Falsy(username) THEN NULL
        ELSE IF Falsy(text) THEN NULL
        ELSE [kind |-> "tweet",
              id |-> res.rest_id.s,
              text |-> text.s,
              author |-> [username |-> username.s,
                          name |-> IF Falsy(name) THEN username.s ELSE name.s],
              authorId |-> userId,
              quotedTweet |-> IF quoteDepth > 0 /\ quotedRaw.kind # "absent"
                              THEN parseTweetUnbounded(quotedRaw, quoteDepth)
                              ELSE NULL,
              media |-> extractMedia(res)]

\* parseTweet(result, quoteDepth): the Tweet, NULL for undefined
RECURSIVE parseTweet(_, _)
parseTweet(res, quoteDepth) ==
    IF res.kind = "absent" THEN NULL
    ELSE
    LET userResult == res.user
        username == FromLegacyOrCore(userResult, "screen_name")
        name == Coalesce(FromLegacyOrCore(userResult, "name"), username)
        userId == IF userResult.kind = "absent" THEN Absent ELSE userResult.rest_id
        text == extractTweetText(res)
        quotedRaw == unwrapTweet(res.quoted)
    IN  IF Falsy(res.rest_id) \/ Falsy(username) THEN NULL
        ELSE IF Falsy(text) THEN NULL
        ELSE [kind |-> "tweet",
              id |-> res.rest_id.s,
              text |-> text.s,
              author |-> [username |-> username.s,
                          name |-> IF Falsy(name) THEN username.s ELSE name.s],
              authorId |-> userId,
              quotedTweet |-> IF quoteDepth > 0 /\ quotedRaw.kind # "absent"
                              THEN parseTweet(quotedRaw, quoteDepth - 1)
                              ELSE NULL,
              media |-> extractMedia(res)]

\* An entry is [content |-> Absent] or [content |-> [kind |-> "content", itemContent,
\* item, items, user, cursorType, value]]: itemContent and item hold the raw node found at
\* content.itemContent.tweet_results.result and content.item.itemContent..., items
\* is a sequence of [a, b, c] holding the nodes at item.item.itemContent...,
\* item.itemContent... and item.content.itemContent..., user holds
\* content.itemContent.user_results.result.

\* push: if (r?.rest_id) results.push(r)
Pushed(r) == IF r.kind # "absent" /\ ~Falsy(r.rest_id) THEN <<r>> ELSE <<>>

RECURSIVE PushedItems(_)
PushedItems(items) ==
    IF items = <<>> THEN <<>>
    ELSE Pushed(Head(items).a) \o Pushed(Head(items).b) \o Pushed(Head(items).c)
         \o PushedItems(Tail(items))

extractTweetResultsItemsFirst(entry) ==
    IF entry.content.kind = "absent" THEN <<>>
    ELSE PushedItems(entry.content.items)
         \o Pushed(entry.content.itemContent) \o Pushed(entry.content.item)

\* extractTweetResultsFromEntry
extractTweetResultsFromEntry(entry) ==
    IF entry.content.kind = "absent" THEN <<>>
    ELSE Pushed(entry.content.itemContent) \o Pushed(entry.content.item)
         \o PushedItems(entry.content.items)

\* the raw nodes of the entries of the instructions, in the order of the loops
RECURSIVE RawOfEntries(_)
RawOfEntries(entries) ==
    IF entries = <<>> THEN <<>>
    ELSE extractTweetResultsFromEntry(Head(entries)) \o RawOfEntries(Tail(entries))

RECURSIVE RawOfInstructions(_)
RawOfInstructions(insts) ==
    IF insts = <<>> THEN <<>>
    ELSE (IF Head(insts).entries.kind = "absent" THEN <<>>
          ELSE RawOfEntries(Head(insts).entries.items))
         \o RawOfInstructions(Tail(insts))

RECURSIVE CollectTweetsUntilBad(_, _, _)
CollectTweetsUntilBad(rawTweets, quoteDepth, acc) ==
    IF rawTweets = <<>> THEN acc
    ELSE LET tweet == parseTweet(Head(rawTweets), quoteDepth)
         IN  IF tweet = NULL THEN acc
             ELSE IF tweet.id \in acc.seen
             THEN CollectTweetsUntilBad(Tail(rawTweets), quoteDepth, acc)
             ELSE CollectTweetsUntilBad(Tail(rawTweets), quoteDepth,
                                        [tweets |-> Append(acc.tweets, tweet),
                                         seen |-> acc.seen \cup {tweet.id}])

\* the innermost loop of parseTweetsFromInstructions: acc is [tweets, seen]
RECURSIVE CollectTweets(_, _, _)
CollectTweets(rawTweets, quoteDepth, acc) ==
    IF rawTweets = <<>> THEN acc
    ELSE LET tweet == parseTweet(Head(rawTweets), quoteDepth)
         IN  IF tweet = NULL \/ tweet.id \in acc.seen
             THEN CollectTweets(Tail(rawTweets), quoteDepth, acc)
             ELSE CollectTweets(Tail(rawTweets), quoteDepth,
                                [tweets |-> Append(acc.tweets, tweet),
                                 seen |-> acc.seen \cup {tweet.id}])

parseTweetsFromInstructionsSeenKept(instructions, quoteDepth) ==
    IF instructions.kind = "absent" THEN <<>>
    ELSE CollectTweets(RawOfInstructions(instructions.items), quoteDepth,
                       [tweets |-> <<>>,
                        seen |-> IF earlier # NULL /\ earlier.input.kind = "tweets"
                                 THEN {earlier.value.items[i].id :
                                          i \in DOMAIN earlier.value.items}
                                 ELSE {}]).tweets

\* parseTweetsFromInstructions(instructions, quoteDepth): tweets and seen are
\* created by the call
parseTweetsFromInstructions(instructions, quoteDepth) ==
    IF instructions.kind = "absent" THEN <<>>
    ELSE CollectTweets(RawOfInstructions(instructions.items), quoteDepth,
                       [tweets |-> <<>>, seen |-> {}]).tweets

CursorInEntriesAnyKind(entries, type) ==
    LET hits == {i \in DOMAIN entries :
                    /\ entries[i].content.kind # "absent"
                    /\ entries[i].content.value.kind = "str"
                    /\ entries[i].content.value.s # ""}
    IN  IF hits = {} THEN Absent
        ELSE entries[CHOOSE i \in hits : \A j \in hits : i <= j].content.value

\* the inner loop of extractCursor: the value of the first entry of the list whose
\* content.cursorType === type and whose value is a non-empty string
RECURSIVE CursorInEntries(_, _)
CursorInEntries(entries, type) ==
    IF entries = <<>> THEN Absent
    ELSE LET content == Head(entries).content
         IN  IF /\ content.kind # "absent"
                /\ content.cursorType = Str(type)
                /\ content.value.kind = "str"
                /\ content.value.s # ""
             THEN content.value
             ELSE CursorInEntries(Tail(entries), type)

RECURSIVE CursorInInstructions(_, _)
CursorInInstructions(insts, type) ==
    IF insts = <<>> THEN Absent
    ELSE LET found == IF Head(insts).entries.kind = "absent" THEN Absent
                      ELSE CursorInEntries(Head(insts).entries.items, type)
         IN  IF found.kind # "absent" THEN found
             ELSE CursorInInstructions(Tail(insts), type)

\* extractCursor(instructions, type), Absent for undefined
extractCursor(instructions, type) ==
    IF instructions.kind = "absent" THEN Absent
    ELSE CursorInInstructions(instructions.items, type)

\* parseUsersFromInstructions: the user of one entry, <<>> when it is skipped
UserOfEntry(entry) ==
    LET userResult == IF entry.content.kind = "absent" THEN Absent ELSE entry.content.user
        resolved == IF userResult.kind # "absent"
                       /\ userResult.typename = "UserWithVisibilityResults"
                       /\ userResult.user.kind # "absent"
                    THEN userResult.user ELSE userResult
        username == FromLegacyOrCore(resolved, "screen_name")
    IN  IF resolved.kind = "absent" \/ resolved.typename # "User" THEN <<>>
        ELSE IF Falsy(resolved.rest_id) \/ Falsy(username) THEN <<>>
        ELSE <<[kind |-> "user", id |-> resolved.rest_id.s, username |-> username.s,
                name |-> Coalesce(FromLegacyOrCore(resolved, "name"), username).s]>>

RECURSIVE UsersOfEntries(_)
UsersOfEntries(entries) ==
    IF entries = <<>> THEN <<>>
    ELSE UserOfEntry(Head(entries)) \o UsersOfEntries(Tail(entries))

RECURSIVE UsersOfInstructions(_)
UsersOfInstructions(insts) ==
    IF insts = <<>> THEN <<>>
    ELSE (IF Head(insts).entries.kind = "absent" THEN <<>>
          ELSE UsersOfEntries(Head(insts).entries.items))
         \o UsersOfInstructions(Tail(insts))

\* parseUsersFromInstructions(instructions)
parseUsersFromInstructions(instructions) ==
    IF instructions.kind = "absent" THEN <<>>
    ELSE UsersOfInstructions(instructions.items)

\* XReaderClient.constructor: Math.max(0, Math.floor(options.quoteDepth ?? 1))
NormalizeQuoteDepth(option) ==
    LET d == IF option.kind = "absent" THEN 1 ELSE option.v
    IN  IF d < 0 THEN 0 ELSE d

----------------------------------------------------------------------------
(* SpecParse: the parser applied to raw payloads *)

MaxQuoteDepth == 2
MaxNesting == 3
MaxVariants == 3

Names(screen_name, name) == [kind |-> "names", screen_name |-> screen_name, name |-> name]
UserResult(typename, id, legacy, core, user) ==
    [kind |-> "user", typename |-> typename, rest_id |-> id, legacy |-> legacy,
     core |-> core, user |-> user]
User(id, legacy, core) == UserResult("User", id, legacy, core, Absent)
Inner(title, plain) ==
    [kind |-> "inner", title |-> title, plain_text |-> plain, body_text |-> Absent,
     content_text |-> Absent]
Article(inner, title, plain, body) ==
    [kind |-> "article", inner |-> inner, title |-> title, plain_text |-> plain,
     body_text |-> body, content_text |-> Absent]
Note(text, rich_text) ==
    [kind |-> "note", text |-> text, richtext |-> Absent, rich_text |-> rich_text,
     content |-> Absent]
Node(id, user, article, note, full_text, quoted) ==
    [kind |-> "node", rest_id |-> id, user |-> user, article |-> article, note |-> note,
     full_text |-> full_text, quoted |-> quoted, extended_media |-> Absent,
     entities_media |-> Absent]

Jack == User(Str("u1"), Names(Str("jack"), Str("Jack")), Absent)

\* a chain of n quoted tweets, every second one wrapped as { tweet: ... }
RECURSIVE Chain(_)
Chain(n) ==
    IF n = 0 THEN Absent
    ELSE LET node == Node(Str("q" \o ToString(n)), Jack, Absent, Absent, Str("quoted"),
                          Chain(n - 1))
         IN  IF n % 2 = 0 THEN [kind |-> "wrapper", tweet |-> node] ELSE node

NodeIds == {Absent, Str(""), Str("t1")}
NodeUsers ==
    { Absent,
      Jack,
      User(Str("u1"), Absent, Names(Str("jack"), Str("Jack"))),
      User(Str("u1"), Names(Str("old"), Str("Old")), Names(Str("new"), Str("New"))),
      User(Str("u1"), Names(Str(""), Str("")), Names(Str("new"), Str("New"))),
      User(Absent, Names(Absent, Absent), Names(Str("new"), Absent)),
      User(Str("u1"), Names(Absent, Str("Nameless")), Absent) }
NodeArticles ==
    { Absent,
      Article(Absent, Absent, Str("  "), Absent),
      Article(Absent, Str("Title"), Absent, Absent),
      Article(Inner(Absent, Str("Title and body")), Str("Title"), Absent, Absent),
      Article(Inner(Str("Title"), Absent), Absent, Absent, Str("Body")) }
NodeNotes == {Absent, Note(Str("note text"), Absent), Note(Str("  "), Str("rich note"))}
NodeTexts == {Absent, Str("  "), Str(" full text ")}
NodeQuotes ==
    {Chain(n) : n \in 0..MaxNesting}
    \cup {Node(Str("q9"), Jack, Absent, Absent, Absent, Chain(1))}

QuoteDepthOptions == {Absent} \cup {[kind |-> "num", v |-> d] : d \in -1..MaxQuoteDepth}
QuoteDepths == {NormalizeQuoteDepth(o) : o \in QuoteDepthOptions}

\* raw nodes for parseTweet: every id, author and text source without a quote,
\* and every quote chain and depth under a tweet with or without text
TweetInputs ==
    {[kind |-> "tweet", node |-> Node(i, u, a, n, t, Absent), quoteDepth |-> 1] :
        i \in NodeIds, u \in NodeUsers, a \in NodeArticles, n \in NodeNotes,
        t \in NodeTexts}
    \cup {[kind |-> "tweet", node |-> Node(Str("t1"), Jack, Absent, Absent, t, q),
           quoteDepth |-> d] :
              t \in NodeTexts, q \in NodeQuotes, d \in QuoteDepths}
    \cup {[kind |-> "tweet", node |-> Absent, quoteDepth |-> 1]}

Variant(content_type, url, bitrate) ==
    [kind |-> "variant", content_type |-> content_type, url |-> url, bitrate |-> bitrate]
Size(w, h) == [kind |-> "size", w |-> Number(w), h |-> Number(h)]
Sizes(large, medium, small) ==
    [kind |-> "sizes", large |-> large, medium |-> medium, small |-> small]
VideoInfo(variants, duration_millis) ==
    [kind |-> "video_info", variants |-> variants, duration_millis |-> duration_millis]
Media(type, media_url_https, sizes, video_info) ==
    [kind |-> "media", type |-> type, media_url_https |-> media_url_https,
     sizes |-> sizes, video_info |-> video_info]

\* variants of a video: mp4 at bitrates 0, 500 and 1200 (twice), mp4 with no
\* bitrate, with a bitrate that is a string and with no url, and a playlist
Variants ==
    { Variant(Str("video/mp4"), Str("zero.mp4"), Number(0)),
      Variant(Str("video/mp4"), Str("low.mp4"), Number(500)),
      Variant(Str("video/mp4"), Str("high.mp4"), Number(1200)),
      Variant(Str("video/mp4"), Str("high2.mp4"), Number(1200)),
      Variant(Str("video/mp4"), Str("plain.mp4"), Absent),
      Variant(Str("video/mp4"), Str("text.mp4"), Str("9000")),
      Variant(Str("video/mp4"), Absent, Number(5000)),
      Variant(Str("application/x-mpegURL"), Str("list.m3u8"), Number(5000)) }

Thumb == Str("https://pbs.twimg.com/thumb.jpg")

MediaEntities ==
    {Media(Str("video"), Thumb, Absent, VideoInfo(List(vs), Number(3000))) :
        vs \in SeqsUpTo(Variants, MaxVariants)}
    \cup {Media(Str(t), Thumb, Sizes(Absent, Size(600, 400), Size(300, 200)),
                VideoInfo(List(<<v>>), Absent)) :
              t \in {"animated_gif", "photo"}, v \in Variants}
    \cup {Media(Str("photo"), Thumb, s, Absent) :
              s \in {Sizes(Size(1200, 800), Size(600, 400), Absent),
                     Sizes(Absent, Absent, Size(300, 200))}}
    \cup { Media(Str("video"), Thumb, Absent, Absent),
           Media(Str("video"), Thumb, Absent, VideoInfo(Absent, Number(3000))),
           Media(Absent, Thumb, Absent, Absent),
           Media(Str(""), Thumb, Absent, Absent),
           Media(Str("photo"), Absent, Absent, Absent) }

Photo == Media(Str("photo"), Thumb, Absent, Absent)

\* where a node holds its media: extended_entities, entities, both, an empty
\* extended list before a filled one, and a list whose first entity is unusable
MediaNodes ==
    LET node == Node(Str("t1"), Jack, Absent, Absent, Str("first"), Absent)
    IN  {[node EXCEPT !.extended_media = List(<<m>>)] : m \in MediaEntities}
        \cup {[node EXCEPT !.entities_media = List(<<m>>)] : m \in {Photo}}
        \cup {[node EXCEPT !.extended_media = e, !.entities_media = List(<<Photo>>)] :
                  e \in {List(<<>>),
                         List(<<Media(Absent, Thumb, Absent, Absent),
                                Media(Str("video"), Thumb, Absent,
                                      VideoInfo(List(<<Variant(Str("video/mp4"),
                                                               Str("low.mp4"), Number(500)),
                                                       Variant(Str("video/mp4"),
                                                               Str("high.mp4"), Number(1200))>>),
                                                Absent))>>)}}

MediaInputs == {[kind |-> "tweet", node |-> n, quoteDepth |-> 1] : n \in MediaNodes}

\* the nodes of a batch: two different tweets with the id t1, a tweet t2, and a
\* node t2 without text
BatchNodes ==
    { Node(Str("t1"), Jack, Absent, Absent, Str("first"), Absent),
      Node(Str("t1"), Jack, Absent, Absent, Str("second"), Chain(1)),
      Node(Str("t2"), Jack, Absent, Absent, Str("third"), Absent),
      Node(Str("t2"), Jack, Absent, Absent, Absent, Absent) }

Content(itemContent, item, items, user) ==
    [kind |-> "content", itemContent |-> itemContent, item |-> item, items |-> items,
     user |-> user, cursorType |-> Absent, value |-> Absent]
Cursor(cursorType, value) ==
    [Content(Absent, Absent, <<>>, Absent) EXCEPT !.cursorType = cursorType,
                                                  !.value = value]
Entry(content) == [content |-> content]
Instruction(entries) == [entries |-> entries]

TweetEntries ==
    {Entry(Content(n, Absent, <<>>, Absent)) : n \in BatchNodes}
    \cup {Entry(Content(Absent, n, <<>>, Absent)) : n \in BatchNodes}
    \cup {Entry(Content(n, m, <<>>, Absent)) : n \in BatchNodes, m \in BatchNodes}
    \cup {Entry(Content(n, Absent, <<[a |-> Absent, b |-> m, c |-> Absent],
                                     [a |-> k, b |-> Absent, c |-> Absent]>>, Absent)) :
              n \in BatchNodes, m \in BatchNodes, k \in BatchNodes}
    \cup {Entry(Content(Absent, Absent, <<[a |-> n, b |-> m, c |-> k]>>, Absent)) :
              n \in BatchNodes, m \in BatchNodes, k \in BatchNodes \cup {Absent}}
    \cup {Entry(Absent)}

TweetsInputs ==
    {[kind |-> "tweets", instructions |-> List(<<Instruction(List(<<e>>))>>),
      quoteDepth |-> d] : e \in TweetEntries, d \in {0, 1}}
    \cup {[kind |-> "tweets",
           instructions |-> List(<<Instruction(List(<<e>>)), Instruction(Absent),
                                   Instruction(List(<<Entry(Content(n, Absent, <<>>, Absent)),
                                                     Entry(Content(Absent, m, <<>>, Absent))>>))>>),
           quoteDepth |-> 1] :
              e \in TweetEntries, n \in BatchNodes,
              m \in {Node(Str("t2"), Jack, Absent, Absent, Str("third"), Absent)}}
    \cup {[kind |-> "tweets", instructions |-> Absent, quoteDepth |-> 1]}

\* user results of a followers / following timeline
ListedUsers ==
    { Absent,
      User(Str("u1"), Names(Str("jack"), Str("Jack")), Absent),
      User(Str("u2"), Absent, Names(Str("new"), Str("New"))),
      User(Str("u3"), Names(Str("old"), Str("Old")), Names(Str("new"), Str("New"))),
      User(Str("u4"), Names(Str(""), Str("")), Names(Str("new"), Str("New"))),
      User(Str("u5"), Names(Str("only"), Absent), Absent),
      User(Absent, Names(Str("noid"), Str("No Id")), Absent),
      User(Str("u6"), Names(Absent, Str("Nameless")), Absent),
      UserResult("UserWithVisibilityResults", Absent, Absent, Absent,
                 User(Str("u7"), Names(Str("seen"), Str("Seen")), Absent)),
      UserResult("UserUnavailable", Str("u8"), Names(Str("gone"), Str("Gone")), Absent,
                 Absent) }

UserEntries == {Entry(Content(Absent, Absent, <<>>, u)) : u \in ListedUsers}
                  \cup {Entry(Absent)}

UsersInputs ==
    {[kind |-> "users",
      instructions |-> List(<<Instruction(List(<<e1, e2>>)), Instruction(Absent),
                              Instruction(List(<<e3>>))>>)] :
        e1 \in UserEntries, e2 \in UserEntries,
        e3 \in {Entry(Content(Absent, Absent, <<>>, u)) :
                   u \in {Jack, User(Str("u2"), Absent, Names(Str("new"), Str("New"))),
                          User(Str("u4"), Names(Str(""), Str("")),
                               Names(Str("new"), Str("New")))}}
               \cup {Entry(Absent)}}
    \cup {[kind |-> "users", instructions |-> Absent]}

\* entries of a timeline page: cursors of both kinds, with a value, an empty value,
\* a value that is no string and no value, an item, and an item that is a cursor too
CursorTypes == {"Bottom", "Top"}
CursorEntries ==
    {Entry(Cursor(Str(k), v)) :
        k \in CursorTypes, v \in {Str("cur123"), Str("cur456"), Str(""), Absent}}
    \cup { Entry(Cursor(Str("Bottom"), NotAString)),
           Entry(Cursor(Absent, Str("cur789"))),
           Entry(Content(Node(Str("t1"), Jack, Absent, Absent, Str("first"), Absent),
                         Absent, <<>>, Absent)),
           Entry([Content(Node(Str("t2"), Jack, Absent, Absent, Str("third"), Absent),
                          Absent, <<>>, Absent)
                     EXCEPT !.cursorType = Str("Top"), !.value = Str("cur456")]),
           Entry(Absent) }

\* a page of two instructions, the first without entries, the second holding one
\* valid item and a Bottom cursor
EndToEndPages ==
    {List(<<first,
            Instruction(List(<<Entry(Content(Node(Str("t1"), Jack, Absent, Absent,
                                                  Str("first"), Absent),
                                             Absent, <<>>, Absent)),
                               Entry(Cursor(Str("Bottom"), Str("cur123")))>>))>>) :
        first \in {Instruction(Absent), Instruction(List(<<>>))}}

CursorPages ==
    {List(<<Instruction(List(<<e1, e2>>)), Instruction(Absent),
            Instruction(List(<<e3>>))>>) :
        e1 \in CursorEntries, e2 \in CursorEntries,
        e3 \in {Entry(Cursor(Str("Bottom"), Str("cur123"))),
                Entry(Cursor(Str("Top"), Str("cur456"))),
                Entry(Absent)}}
    \cup EndToEndPages
    \cup {Absent}

CursorInputs ==
    {[kind |-> "cursor", instructions |-> p, type |-> k] :
        p \in CursorPages, k \in CursorTypes}

EndToEndInputs ==
    {[kind |-> "tweets", instructions |-> p, quoteDepth |-> 1] : p \in EndToEndPages}

\* key: "value" as bundle text, the key written bare or in quotes
FieldText(key, value, quoted, sep, q) ==
    (IF quoted THEN <<q, key, q>> ELSE <<key>>) \o <<sep, q, value, q>>

\* what stands between the two fields of a module
Betweens ==
    { <<",">>,
      <<" ", ",", "\n", " ">>,
      <<",", "metadata", ":", "{", "}", ",">>,
      <<",", Filler, ",">> }

\* a bundle text holding one operation and one identifier
PairText(exports, opFirst, quoted, sep, q, between, op, qid) ==
    (IF exports THEN <<"e.exports={">> ELSE <<"x", "=", "{">>)
    \o (IF opFirst THEN FieldText("operationName", op, quoted, sep, q)
        ELSE FieldText("queryId", qid, quoted, sep, q))
    \o between
    \o (IF opFirst THEN FieldText("queryId", qid, quoted, sep, q)
        ELSE FieldText("operationName", op, quoted, sep, q))
    \o <<"}">>

\* operationName":"SearchTimeline","queryId":"ABC123" and the same with the two
\* fields swapped, character by character
QuotedKeyTexts ==
    { <<"operationName", "\"", ":", "\"", "SearchTimeline", "\"", ",",
        "\"", "queryId", "\"", ":", "\"", "ABC123", "\"">>,
      <<"queryId", "\"", ":", "\"", "ABC123", "\"", ",",
        "\"", "operationName", "\"", ":", "\"", "SearchTimeline", "\"">> }

\* operationName:"SearchTimeline",queryId:"ABC123" and the same with the two fields
\* swapped
BareKeyTexts ==
    { <<"operationName", ":", "\"", "SearchTimeline", "\"", ",",
        "queryId", ":", "\"", "ABC123", "\"">>,
      <<"queryId", ":", "\"", "ABC123", "\"", ",",
        "operationName", ":", "\"", "SearchTimeline", "\"">> }

BundleTexts ==
    {PairText(e, o, k, s, q, b, p[1], p[2]) :
        e \in BOOLEAN, o \in BOOLEAN, k \in BOOLEAN, s \in {":", "="}, q \in Quotes,
        b \in Betweens,
        p \in {<<"SearchTimeline", "ABC123">>, <<"SearchTimeline", "bad id!">>,
               <<"CreateTweet", "ABC123">>}}
    \cup QuotedKeyTexts
    \cup BareKeyTexts
    \cup { <<>>,
           Exported("TweetDetail", "A1") \o Exported("SearchTimeline", "B2"),
           PairText(FALSE, FALSE, FALSE, ":", "\"", <<",">>, "TweetDetail", "A1")
              \o <<",">>
              \o PairText(FALSE, FALSE, FALSE, ":", "\"", <<",">>, "SearchTimeline", "B2") }

BundleInputs ==
    {[kind |-> "bundle", js |-> t, wantedOps |-> w, results |-> EmptyMap] :
        t \in BundleTexts, w \in {DISCOVERY_OPERATIONS, {"TweetDetail"}}}
    \cup {[kind |-> "bundle", js |-> t, wantedOps |-> DISCOVERY_OPERATIONS,
           results |-> [o \in {"SearchTimeline"} |-> RotatedId]] : t \in BareKeyTexts}

\* payloads of every kind that are parsed again after other ones
RepeatedInputs ==
    { [kind |-> "tweet", quoteDepth |-> 1,
       node |-> Node(Str("t1"), Jack, Absent, Absent, Str(" full text "), Chain(2))],
      [kind |-> "tweet", quoteDepth |-> 0,
       node |-> Node(Str("t1"), Jack, Absent, Absent, Str(" full text "), Chain(2))],
      [kind |-> "tweet", quoteDepth |-> 1, node |-> Absent],
      [kind |-> "users", instructions |-> Absent] }
    \cup EndToEndInputs
    \cup {[kind |-> "cursor", instructions |-> p, type |-> k] :
              p \in EndToEndPages, k \in CursorTypes}
    \cup {[kind |-> "users",
           instructions |-> List(<<Instruction(List(<<e, e>>)), Instruction(Absent),
                                   Instruction(List(<<e>>))>>)] :
              e \in {Entry(Content(Absent, Absent, <<>>, Jack))}}
    \cup {[kind |-> "tweets", quoteDepth |-> 1,
           instructions |-> List(<<Instruction(List(<<Entry(Content(n, m, <<>>, Absent))>>))>>)] :
              n \in BatchNodes, m \in BatchNodes}

Pending == [kind |-> "pending"]
ReturnedValue(value) == [kind |-> "returned", value |-> value]

\* a caller hands a payload to the parser; once a result is kept, the payloads are
\* the one of that result and the ones of RepeatedInputs
Feed(payload) ==
    /\ output = NULL
    /\ earlier # NULL => payload \in RepeatedInputs \cup {earlier.input}
    /\ input' = payload
    /\ output' = Pending
    /\ earlier' = IF earlier # NULL /\ payload # earlier.input
                  THEN [earlier EXCEPT !.between = TRUE]
                  ELSE earlier
    /\ UNCHANGED <<disk, memoryCache, now, last, clientVars, saveVars, scan>>

\* parseTweet(result, quoteDepth) returns
ParseTweet ==
    /\ output = Pending /\ input.kind = "tweet"
    /\ output' = ReturnedValue(parseTweet(input.node, input.quoteDepth))
    /\ UNCHANGED <<disk, memoryCache, now, last, clientVars, saveVars, input, earlier, scan>>

\* parseTweetsFromInstructions(instructions, quoteDepth) returns
ParseTweets ==
    /\ output = Pending /\ input.kind = "tweets"
    /\ output' = ReturnedValue(List(parseTweetsFromInstructions(input.instructions,
                                                                input.quoteDepth)))
    /\ UNCHANGED <<disk, memoryCache, now, last, clientVars, saveVars, input, earlier, scan>>

\* parseUsersFromInstructions(instructions) returns
ParseUsers ==
    /\ output = Pending /\ input.kind = "users"
    /\ output' = ReturnedValue(List(parseUsersFromInstructions(input.instructions)))
    /\ UNCHANGED <<disk, memoryCache, now, last, clientVars, saveVars, input, earlier, scan>>

\* extractCursor(instructions, type) returns
ExtractCursor ==
    /\ output = Pending /\ input.kind = "cursor"
    /\ output' = ReturnedValue(extractCursor(input.instructions, input.type))
    /\ UNCHANGED <<disk, memoryCache, now, last, clientVars, saveVars, input, earlier, scan>>

\* extractFromBundle(js, bundleName, wantedOps, results) returns
ExtractFromBundle ==
    /\ output = Pending /\ input.kind = "bundle"
    /\ output' = ReturnedValue([kind |-> "map",
                                ids |-> extractFromBundle(input.js, input.wantedOps,
                                                          input.results)])
    /\ UNCHANGED <<disk, memoryCache, now, last, clientVars, saveVars, input, earlier, scan>>

\* the caller keeps the first result and parses the same payload once more
Again ==
    /\ output.kind = "returned"
    /\ output' = Pending
    /\ earlier' = IF earlier = NULL
                  THEN [input |-> input, value |-> output.value, between |-> FALSE]
                  ELSE earlier
    /\ UNCHANGED <<disk, memoryCache, now, last, clientVars, saveVars, input, scan>>

\* the caller goes on to another call
Done ==
    /\ output.kind = "returned"
    /\ earlier # NULL /\ earlier.input \in RepeatedInputs
    /\ output' = NULL
    /\ UNCHANGED <<disk, memoryCache, now, last, clientVars, saveVars, input, earlier, scan>>

InitParse ==
    /\ disk = NoFile
    /\ ClientIdle

NextParse ==
    \/ \E payload \in TweetInputs \cup TweetsInputs \cup UsersInputs : Feed(payload)
    \/ \E payload \in CursorInputs \cup EndToEndInputs : Feed(payload)
    \/ \E payload \in MediaInputs : Feed(payload)
    \/ ParseTweet
    \/ ParseTweets
    \/ ParseUsers
    \/ ExtractCursor
    \/ \E payload \in BundleInputs : Feed(payload)
    \/ ExtractFromBundle
    \/ Again
    \/ Done

SpecParse == InitParse /\ [][NextParse]_vars

----------------------------------------------------------------------------
(* Properties of the cache (SpecCache) *)

\* the snapshot a call finds: the process-local one, else the one in the file
Effective(mem, file) == IF mem # NULL THEN mem ELSE loadCache(file)

\* now - fetchedAt <= ttlMs, false for a fetchedAt that is no time
FreshAt(snapshot, t) ==
    /\ snapshot.fetchedAt.kind = "iso"
    /\ t - snapshot.fetchedAt.ms <= snapshot.ttlMs

\* C8 (as claimed): a refresh that fails for want of bundle URLs or of identifiers
\* leaves the cache file and the snapshot as they were and reports the failure as
\* a value, not as an exception.
C8_FailedRefreshIsReported ==
    (last.call = "refresh" /\ last.failure \in {"noBundles", "noIds"}) =>
        /\ disk = last.preDisk
        /\ Effective(memoryCache, disk) = Effective(last.preMem, last.preDisk)
        /\ ~last.threw

\* C9: refreshQueryIds runs the discovery exactly when force is set or no fresh
\* snapshot exists; with force unset and a fresh snapshot it fetches nothing, writes
\* nothing and returns the current snapshot.
C9_RefreshRunsIffForcedOrStale ==
    last.call = "refresh" =>
        LET eff == Effective(last.preMem, last.preDisk)
            fresh == eff # NULL /\ FreshAt(eff, last.t)
        IN  /\ last.ranDiscovery <=> (last.force \/ ~fresh)
            /\ (~last.force /\ fresh) =>
                   /\ ~last.wrote /\ ~last.threw
                   /\ disk = last.preDisk
                   /\ last.info # NULL /\ last.info.snapshot = eff
                   /\ memoryCache = eff

\* a forced refresh that ran the discovery over a fresh snapshot
C9_Witness ==
    /\ last.call = "refresh" /\ last.force /\ last.ranDiscovery
    /\ Effective(last.preMem, last.preDisk) # NULL
    /\ FreshAt(Effective(last.preMem, last.preDisk), last.t)

\* C10: every snapshot info reports isFresh exactly when now - fetchedAt <= ttlMs,
\* the boundary included; a snapshot whose fetchedAt is no time is not fresh.
C10_FreshIffWithinTtl ==
    (last.call # "none" /\ last.info # NULL) =>
        (last.info.isFresh <=> FreshAt(last.info.snapshot, last.t))

\* a snapshot fetched 23 hours ago with the 24 hour TTL, reported fresh
C10_Witness ==
    /\ last.call = "getSnapshotInfo" /\ last.info # NULL
    /\ last.info.snapshot.fetchedAt.kind = "iso"
    /\ last.t - last.info.snapshot.fetchedAt.ms = 23 * HourMs
    /\ last.info.snapshot.ttlMs = 24 * HourMs
    /\ last.info.isFresh

\* the snapshot's entry for an operation, '' when it has none
Stored(snapshot, operation) ==
    IF snapshot # NULL /\ operation \in DOMAIN snapshot.ids THEN snapshot.ids[operation]
    ELSE ""

C12_CachedThenDefaultThenEmpty ==
    last.call = "getQueryId" =>
        LET stored == Stored(Effective(last.preMem, last.preDisk), last.op)
            hardcoded == last.op \in DOMAIN DEFAULT_QUERY_IDS
        IN  /\ last.id = (IF stored # "" THEN stored
                          ELSE IF hardcoded THEN DEFAULT_QUERY_IDS[last.op]
                          ELSE "")
            /\ last.id = "" <=> (stored = "" /\ ~hardcoded)

\* no cache file, a discovery that extracted no identifier, then the hardcoded
\* identifier is returned
C12_Witness ==
    /\ last.call = "getQueryId" /\ last.after = "noIds"
    /\ last.preDisk = NoFile /\ last.preMem = NULL
    /\ last.op = "TweetDetail" /\ last.id = "97JF30KziU00483E_8elBA"

\* C13: while refreshQueryIds writes the cache file, and after a write that was
\* interrupted, a reader in this process or in another gets the complete previous
\* snapshot, the complete new snapshot or no snapshot, never a partly written
\* one; once the refresh has succeeded both the file and the process-local copy
\* hold the new snapshot.
C13_NoPartialSnapshot ==
    /\ (seen.kind = "read" /\ seen.during # "idle") =>
           seen.value \in seen.complete \cup {NULL}
    /\ save.kind = "saved" =>
           /\ loadCache(disk) = save.cache
           /\ Effective(memoryCache, disk) = save.cache

\* another process read the file when only part of a two-bundle snapshot was in it
C13_Witness ==
    /\ seen.kind = "read" /\ seen.by = "other" /\ seen.during = "saving" /\ seen.partial
    /\ disk.kind = "text" /\ Occurrences(disk.tokens, {"item"}) = 1
    /\ seen.value = NULL

\* C14 (as claimed): every value of the current snapshot's ids has the shape
\* [a-zA-Z0-9_-]+, whether a refresh produced the snapshot or the cache file was
\* loaded, and getQueryId returns no value of another shape.
C14_IdsAreTokens ==
    /\ memoryCache # NULL =>
           \A o \in DOMAIN memoryCache.ids : VALID_QUERY_ID(memoryCache.ids[o])
    /\ last.call = "getQueryId" => (last.id = "" \/ VALID_QUERY_ID(last.id))

\* what can be wrong with a cache file
Unreadable(file) == file.kind \in {"nofile", "garbage"}
MissingField(file) ==
    /\ file.kind = "doc"
    /\ \/ file.fetchedAt.kind = "absent" \/ file.ttlMs.kind = "absent"
       \/ file.ids.kind = "absent" \/ file.discovery.kind = "absent"
NotALists(file) ==
    /\ file.kind = "doc" /\ file.discovery.kind = "obj"
    /\ file.discovery.pages.kind # "list" \/ file.discovery.bundles.kind # "list"
HasStrays(items) == \E i \in DOMAIN items : items[i].kind # "str"
StrayElements(file) ==
    /\ file.kind = "doc" /\ ~MissingField(file) /\ ~NotALists(file)
    /\ \/ \E o \in DOMAIN file.ids.map : file.ids.map[o].kind # "str"
       \/ HasStrays(file.discovery.pages.items)
       \/ HasStrays(file.discovery.bundles.items)

\* a call that had to load the cache file
Loaded == last.call \in {"getSnapshotInfo", "getQueryId"} /\ last.preMem = NULL

----------------------------------------------------------------------------
(* Properties of the parser (SpecParse) *)

Parsed(kind) == output.kind = "returned" /\ input.kind = kind

\* the entries of the instructions, instruction by instruction
RECURSIVE EntriesIn(_)
EntriesIn(insts) ==
    IF insts = <<>> THEN <<>>
    ELSE (IF Head(insts).entries.kind = "absent" THEN <<>> ELSE Head(insts).entries.items)
         \o EntriesIn(Tail(insts))

RECURSIVE SlotsOfItems(_)
SlotsOfItems(items) ==
    IF items = <<>> THEN <<>>
    ELSE <<Head(items).a, Head(items).b, Head(items).c>> \o SlotsOfItems(Tail(items))

\* the places of the entries where a raw tweet may sit, in traversal order: entry
\* by entry, the entry's own item, its nested item, then its list of items
RECURSIVE SlotsOfEntries(_)
SlotsOfEntries(entries) ==
    IF entries = <<>> THEN <<>>
    ELSE (IF Head(entries).content.kind = "absent" THEN <<>>
          ELSE <<Head(entries).content.itemContent, Head(entries).content.item>>
               \o SlotsOfItems(Head(entries).content.items))
         \o SlotsOfEntries(Tail(entries))

Traversal(instructions) ==
    IF instructions.kind = "absent" THEN <<>>
    ELSE SlotsOfEntries(EntriesIn(instructions.items))

\* C16: parseTweetsFromInstructions returns no two items with the same id, each
\* item being the first valid occurrence of its id in traversal order (instruction,
\* entry, nesting shape), and the items stand in the order of those first
\* occurrences; a call starts with no id seen, whatever was parsed before.
C16_FirstOccurrenceInOrder ==
    Parsed("tweets") =>
        LET out == output.value.items
            slots == Traversal(input.instructions)
            at(p) == parseTweet(slots[p], input.quoteDepth)
            IsFirst(p, id) ==
                /\ at(p) # NULL /\ at(p).id = id
                /\ \A q \in 1..(p - 1) : at(q) = NULL \/ at(q).id # id
        IN  /\ \A i, j \in DOMAIN out : i # j => out[i].id # out[j].id
            /\ \A i \in DOMAIN out :
                   \E p \in DOMAIN slots : IsFirst(p, out[i].id) /\ out[i] = at(p)
            /\ \A i, j \in DOMAIN out : i < j =>
                   \E p, q \in DOMAIN slots :
                      p < q /\ IsFirst(p, out[i].id) /\ IsFirst(q, out[j].id)

\* a payload holding the id t1 twice, with different text, and t2 after them: the
\* first t1 and t2 are returned
C16_Witness ==
    /\ Parsed("tweets")
    /\ \E p, q, r \in DOMAIN Traversal(input.instructions) :
          LET slots == Traversal(input.instructions)
          IN  /\ p < q /\ q < r
              /\ slots[p].kind = "node" /\ slots[p].full_text = Str("second")
              /\ slots[q].kind = "node" /\ slots[q].full_text = Str("first")
              /\ slots[r].kind = "node" /\ slots[r].full_text = Str("third")
    /\ Len(output.value.items) = 2
    /\ output.value.items[1].text = "second"
    /\ output.value.items[2].text = "third"

\* the number of quoted tweets nested in a Tweet
RECURSIVE QuoteLen(_)
QuoteLen(tweet) == IF tweet.quotedTweet = NULL THEN 0 ELSE 1 + QuoteLen(tweet.quotedTweet)

\* the number of quoted nodes nested in a raw node
RECURSIVE RawQuoteLen(_)
RawQuoteLen(node) ==
    IF unwrapTweet(node.quoted).kind = "absent" THEN 0
    ELSE 1 + RawQuoteLen(unwrapTweet(node.quoted))

\* C17: the chain of quotedTweet records parseTweet returns is never longer than
\* quoteDepth, for every depth the client can be built with; with quoteDepth 0
\* there is no quotedTweet whatever the payload quotes.
C17_QuoteChainBounded ==
    /\ (Parsed("tweet") /\ output.value # NULL) =>
           QuoteLen(output.value) <= input.quoteDepth
    /\ Parsed("tweets") =>
           \A i \in DOMAIN output.value.items :
               QuoteLen(output.value.items[i]) <= input.quoteDepth

\* a payload quoting deeper than the depth asked for, cut at that depth
C17_Witness ==
    /\ Parsed("tweet") /\ output.value # NULL
    /\ input.quoteDepth >= 1
    /\ RawQuoteLen(input.node) > input.quoteDepth
    /\ QuoteLen(output.value) = input.quoteDepth

\* a string field that holds text
NonBlank(v) == v.kind = "str" /\ Trim(v.s) # ""

\* the texts of the article fields of a raw node
ArticleFieldTexts(node) ==
    IF node.article.kind = "absent" THEN {}
    ELSE LET a == node.article
             own == {a.title, a.plain_text, a.body_text, a.content_text}
             nested == IF a.inner.kind = "absent" THEN {}
                       ELSE {a.inner.title, a.inner.plain_text, a.inner.body_text,
                             a.inner.content_text}
         IN  {Trim(f.s) : f \in {g \in own \cup nested : NonBlank(g)}}

\* the texts of the long-form note of a raw node
NoteFieldTexts(node) ==
    IF node.note.kind = "absent" THEN {}
    ELSE {Trim(f.s) : f \in {g \in {node.note.text, node.note.richtext, node.note.rich_text,
                                     node.note.content} : NonBlank(g)}}

\* a raw node with an id and an author, so that only its text decides
Attributable(node) ==
    /\ node.kind = "node" /\ ~Falsy(node.rest_id)
    /\ ~Falsy(FromLegacyOrCore(node.user, "screen_name"))

\* C18: the text of a parsed tweet is the first non-empty of the article-derived
\* text, the note text and legacy full_text: article text when the node has
\* article fields, whatever else it has; full_text when it has nothing else; and a
\* node with none of the three yields no tweet.
C18_TextPrecedence ==
    (Parsed("tweet") /\ Attributable(input.node)) =>
        LET node == input.node
            tweet == output.value
            fromArticle == ArticleFieldTexts(node)
            fromNote == NoteFieldTexts(node)
        IN  IF fromArticle # {}
            THEN /\ tweet # NULL
                 /\ tweet.text \in fromArticle
                                    \cup {a \o "\n" \o b : a \in fromArticle, b \in fromArticle}
            ELSE IF fromNote # {}
            THEN tweet # NULL /\ tweet.text \in fromNote
            ELSE IF NonBlank(node.full_text)
            THEN tweet # NULL /\ tweet.text = Trim(node.full_text.s)
            ELSE tweet = NULL

\* a node with an article title, an article body, a note and full_text
C18_Witness ==
    /\ Parsed("tweet") /\ Attributable(input.node)
    /\ input.node.full_text = Str(" full text ")
    /\ input.node.note.kind = "note"
    /\ output.value # NULL /\ output.value.text = "Title\nBody"

\* the field as the legacy shape and as the core shape of a user result give it
LegacyField(user, field) ==
    IF user.kind = "absent" \/ user.legacy.kind = "absent" THEN Absent
    ELSE user.legacy[field]
CoreField(user, field) ==
    IF user.kind = "absent" \/ user.core.kind = "absent" THEN Absent
    ELSE user.core[field]

\* a raw node that lacks an id, a text or an author username
Lacking(node) ==
    \/ node.kind = "absent"
    \/ Falsy(node.rest_id)
    \/ (ArticleFieldTexts(node) = {} /\ NoteFieldTexts(node) = {}
        /\ ~NonBlank(node.full_text))
    \/ (Falsy(LegacyField(node.user, "screen_name"))
        /\ Falsy(CoreField(node.user, "screen_name")))

\* C19: a raw node without an id, without text or without an author username yields
\* no tweet; in a batch it is left out and every other node that parses is still
\* returned, those after it as well as those before it.
C19_BadNodeDroppedAlone ==
    /\ (Parsed("tweet") /\ Lacking(input.node)) => output.value = NULL
    /\ Parsed("tweets") =>
           LET out == output.value.items
               slots == Traversal(input.instructions)
           IN  /\ \A p \in DOMAIN slots :
                      ~Lacking(slots[p]) =>
                          \E i \in DOMAIN out : out[i].id = slots[p].rest_id.s
               /\ \A i \in DOMAIN out :
                      \E p \in DOMAIN slots :
                          ~Lacking(slots[p]) /\ out[i] = parseTweet(slots[p], input.quoteDepth)

\* a batch with a node without text between two good ones: both are returned
C19_Witness ==
    /\ Parsed("tweets")
    /\ \E p, q, r \in DOMAIN Traversal(input.instructions) :
          LET slots == Traversal(input.instructions)
          IN  /\ p < q /\ q < r
              /\ slots[p].kind = "node" /\ slots[p].full_text = Str("first")
              /\ slots[q].kind = "node" /\ Lacking(slots[q])
              /\ slots[r].kind = "node" /\ slots[r].full_text = Str("third")
    /\ Len(output.value.items) = 2
    /\ output.value.items[2].id = "t2"

\* a string field that holds a usable value
Usable(v) == v.kind = "str" /\ v.s # ""

\* the legacy value when it is usable, the core value otherwise
UsableLegacyElseCore(user, field) ==
    IF Usable(LegacyField(user, field)) THEN LegacyField(user, field)
    ELSE CoreField(user, field)

\* the legacy value when the legacy shape defines the field, the core value otherwise
DefinedLegacyElseCore(user, field) ==
    IF LegacyField(user, field).kind # "absent" THEN LegacyField(user, field)
    ELSE CoreField(user, field)

\* the user an entry stands for: the user itself, or the one a
\* UserWithVisibilityResults wraps
Resolved(entry) ==
    IF entry.content.kind = "absent" THEN Absent
    ELSE LET u == entry.content.user
         IN  IF u.kind # "absent" /\ u.typename = "UserWithVisibilityResults"
                /\ u.user.kind # "absent"
             THEN u.user ELSE u

\* the entries of a user list whose user is a User
UserEntriesOf(instructions) ==
    IF instructions.kind = "absent" THEN <<>>
    ELSE SelectSeq(EntriesIn(instructions.items),
                   LAMBDA e : Resolved(e).kind # "absent" /\ Resolved(e).typename = "User")

PageEntries(instructions) ==
    IF instructions.kind = "absent" THEN <<>> ELSE EntriesIn(instructions.items)

\* the entry is a cursor of the kind asked for and its value is a non-empty string
CursorOfKind(entry, type) ==
    /\ entry.content.kind # "absent"
    /\ entry.content.cursorType = Str(type)
    /\ entry.content.value.kind = "str"
    /\ entry.content.value.s # ""

\* C21: extractCursor(instructions, kind) returns the value of the first entry, in
\* instruction-then-entry order, whose cursor kind is the one asked for and whose
\* value is a non-empty string, and nothing when there is no such entry; for the
\* page of two instructions (the first without entries, the second with one valid
\* item and the Bottom cursor 'cur123') parseTweetsFromInstructions returns exactly
\* one item and extractCursor returns 'cur123'.
C21_FirstCursorOfKind ==
    /\ Parsed("cursor") =>
          LET es == PageEntries(input.instructions)
              hits == {i \in DOMAIN es : CursorOfKind(es[i], input.type)}
          IN  IF hits = {} THEN output.value = Absent
              ELSE \E i \in hits : /\ \A j \in hits : i <= j
                                   /\ output.value = es[i].content.value
    /\ (\/ Parsed("tweets") /\ input.instructions \in EndToEndPages
        \/ Parsed("cursor") /\ input.instructions \in EndToEndPages) =>
          /\ input.kind = "tweets" =>
                 Len(output.value.items) = 1 /\ output.value.items[1].id = "t1"
          /\ (input.kind = "cursor" /\ input.type = "Bottom") =>
                 output.value = Str("cur123")

\* a Bottom cursor is asked for in a page whose first entry is a Top cursor with a
\* value, whose second is a Bottom cursor with an empty value and whose third, in
\* a later instruction, is the Bottom cursor 'cur123'
C21_Witness ==
    /\ Parsed("cursor") /\ input.type = "Bottom"
    /\ LET es == PageEntries(input.instructions)
       IN  /\ Len(es) = 3
           /\ es[1] = Entry(Cursor(Str("Top"), Str("cur456")))
           /\ es[2] = Entry(Cursor(Str("Bottom"), Str("")))
           /\ es[3] = Entry(Cursor(Str("Bottom"), Str("cur123")))
    /\ output.value = Str("cur123")

\* the media entities of a node that extractMedia turns into items
RECURSIVE Kept(_)
Kept(mediaEntities) ==
    IF mediaEntities = <<>> THEN <<>>
    ELSE (IF Usable(Head(mediaEntities).type) /\ Usable(Head(mediaEntities).media_url_https)
          THEN <<Head(mediaEntities)>> ELSE <<>>)
         \o Kept(Tail(mediaEntities))

KeptMedia(node) ==
    LET list == IF node.extended_media.kind # "absent" THEN node.extended_media
                ELSE node.entities_media
    IN  IF list.kind = "absent" THEN <<>> ELSE Kept(list.items)

\* the variants of a playable entity (a video or an animated gif)
VariantsOf(m) ==
    IF /\ m.type \in {Str("video"), Str("animated_gif")}
       /\ m.video_info.kind # "absent"
       /\ m.video_info.variants.kind # "absent"
    THEN m.video_info.variants.items
    ELSE <<>>

\* C22: the videoUrl of a media item is the url of an mp4 variant with the highest
\* bitrate among the mp4 variants that declare a number as bitrate, the earliest in
\* source order of them on a tie; when no mp4 variant declares a bitrate it is the
\* url of the first mp4 variant; when there is no mp4 variant no videoUrl is set.
\* Variants with the bitrates 500 and 1200 give the url of the 1200 one.
C22_HighestBitrateMp4 ==
    (Parsed("tweet") /\ input.node \in MediaNodes) =>
        LET kept == KeptMedia(input.node)
            media == IF output.value.media.kind = "absent" THEN <<>>
                     ELSE output.value.media.items
            Holds(m, item) ==
                LET vs == VariantsOf(m)
                    mp4 == {i \in DOMAIN vs : /\ vs[i].content_type = Str("video/mp4")
                                              /\ vs[i].url.kind = "str"}
                    rated == {i \in mp4 : vs[i].bitrate.kind = "num"}
                IN  IF rated # {}
                    THEN \E i \in rated :
                            /\ \A j \in rated : vs[j].bitrate.v <= vs[i].bitrate.v
                            /\ \A j \in rated : j < i => vs[j].bitrate.v < vs[i].bitrate.v
                            /\ item.videoUrl = vs[i].url
                    ELSE IF mp4 # {}
                    THEN \E i \in mp4 : /\ \A j \in mp4 : i <= j
                                        /\ item.videoUrl = vs[i].url
                    ELSE item.videoUrl = Absent
        IN  /\ output.value # NULL
            /\ Len(media) = Len(kept)
            /\ \A k \in DOMAIN kept : Holds(kept[k], media[k])

\* a video whose variants are, in source order, mp4 at 500, mp4 at 1200 and a
\* second mp4 at 1200: the first 1200 one is selected
C22_Witness ==
    /\ Parsed("tweet") /\ input.node \in MediaNodes
    /\ LET kept == KeptMedia(input.node)
       IN  /\ Len(kept) = 1
           /\ LET vs == VariantsOf(kept[1])
              IN  /\ Len(vs) = 3
                  /\ vs[1].bitrate = Number(500) /\ vs[1].url = Str("low.mp4")
                  /\ vs[2].bitrate = Number(1200) /\ vs[2].url = Str("high.mp4")
                  /\ vs[3].bitrate = Number(1200) /\ vs[3].url = Str("high2.mp4")
    /\ output.value.media.items[1].videoUrl = Str("high.mp4")

Extracted == Parsed("bundle") /\ input.results = EmptyMap
SearchTimelineABC123 == [o \in {"SearchTimeline"} |-> "ABC123"]

\* C28 as stated: the bundle text operationName":"SearchTimeline","queryId":"ABC123"
\* and the text with the two fields swapped both yield the pair (SearchTimeline,
\* ABC123) when SearchTimeline is a wanted operation.
C28_QuotedKeysYieldPair ==
    (Extracted /\ input.js \in QuotedKeyTexts /\ "SearchTimeline" \in input.wantedOps)
        => output.value.ids = SearchTimelineABC123

\* C28, amended: the bundle text operationName:"SearchTimeline",queryId:"ABC123",
\* the keys written bare as in a script, and the text with the two fields swapped
\* both yield the pair (SearchTimeline, ABC123) when SearchTimeline is a wanted
\* operation; the same holds with = for :, with ' for ", after e.exports={ and
\* with other text on the line between the fields; a text whose keys stand in
\* quotes, as in operationName":"SearchTimeline","queryId":"ABC123", yields no pair.
C28_BareKeysYieldPair ==
    Extracted =>
        /\ (input.js \in BareKeyTexts /\ "SearchTimeline" \in input.wantedOps)
              => output.value.ids = SearchTimelineABC123
        /\ \A e, o \in BOOLEAN, s \in {":", "="}, q \in Quotes :
              /\ \A b \in {<<",">>, <<",", "metadata", ":", "{", "}", ",">>} :
                    (/\ input.js = PairText(e, o, FALSE, s, q, b, "SearchTimeline", "ABC123")
                     /\ "SearchTimeline" \in input.wantedOps)
                       => output.value.ids = SearchTimelineABC123
              /\ \A b \in Betweens :
                    input.js = PairText(e, o, TRUE, s, q, b, "SearchTimeline", "ABC123")
                       => output.value.ids = EmptyMap
        /\ input.js \in QuotedKeyTexts => output.value.ids = EmptyMap

\* the text queryId:"ABC123",operationName:"SearchTimeline" was scanned for every
\* operation of the client and gave the pair
C28_Witness ==
    /\ Extracted
    /\ input.js = <<"queryId", ":", "\"", "ABC123", "\"", ",",
                    "operationName", ":", "\"", "SearchTimeline", "\"">>
    /\ input.wantedOps = DISCOVERY_OPERATIONS
    /\ output.value.ids = SearchTimelineABC123

----------------------------------------------------------------------------
(* Properties of the read operations (Spec, SpecOps) *)

\* C23: in a pagination loop the first page is requested without a cursor, page
\* k+1 is requested with the nextCursor page k returned, and no cursor value is
\* used for two page requests of the same paginated call.
C23_CursorsInOrderNeverReused ==
    /\ [](outer.kind = "all" =>
             LET requested == outer.requested
             IN  /\ Len(requested) > 0 => requested[1] = ""
                 /\ \A i, j \in DOMAIN requested : i # j => requested[i] # requested[j])
    /\ [][(/\ outer.kind = "all" /\ outer'.kind = "all"
           /\ Len(outer.requested) > 0
           /\ Len(outer'.requested) = Len(outer.requested) + 1) =>
              outer'.requested[Len(outer'.requested)] = result.data.nextCursor]_vars

\* the dispatch has ended with the answer to its last attempt (no refresh threw
\* after it)
EndedByAttempt ==
    /\ Finished /\ log # <<>>
    /\ last.call = "refresh" => ~last.threw

\* C24: a read operation (search, getTweet, getReplies, getUserTweets,
\* getBookmarks) whose last attempt received a 2xx response with a non-empty
\* errors list returns a failure whose message is the error messages joined; it
\* does not return a success.
C24_ErrorsListIsFailure ==
    (EndedByAttempt /\ Join(log[Len(log)].errors) # "") =>
        /\ ~result.success
        /\ result.error = Join(log[Len(log)].errors)

\* C25: when the last attempt of search or getUserTweets, called directly or by
\* searchAll / getUserTweetsAll, received an errors list whose joined message
\* contains 'suspended' or 'not found', neither the operation nor its paginated
\* wrapper reports a failed operation: the result handed to the caller is not a
\* failure.
C25_SoftErrorIsNotAFailure ==
    (/\ EndedByAttempt
     /\ method \in {"search", "getUserTweets"}
     /\ IsSoftMessage(Join(log[Len(log)].errors))) => result.success

\* every attempt of the dispatch got a 2xx response in which no tweet was found
AllNotFoundIn2xx ==
    /\ Finished /\ method = "getTweet" /\ log # <<>>
    /\ \A i \in 1..Len(log) : log[i].status = 200 /\ log[i].value = NULL

\* C26: a getTweet dispatch in which every attempted identifier got a 2xx
\* response without the tweet returns the failure 'Tweet not found in response';
\* no refresh was made, and every candidate of the first pass was attempted, in
\* order, before it failed.
C26_TweetNotFoundInResponse ==
    AllNotFoundIn2xx =>
        /\ ~result.success
        /\ result.error = "Tweet not found in response"
        /\ refreshCalls = 0
        /\ ~had404
        /\ Len(log) = Len(ids)
        /\ \A i \in 1..Len(log) : log[i].pass = 1 /\ log[i].qid = ids[i]

\* getTweet had three candidates, each answered 200 without the tweet
C26_Witness ==
    /\ AllNotFoundIn2xx
    /\ Len(log) = 3
    /\ result.error = "Tweet not found in response"

\* the candidates in the order the dispatch names them: the value the cache
\* resolves for the operation, the hardcoded fallback, the extras of the caller
Built ==
    LET operation == OperationOf(method)
        cached == getQueryId(memoryCache, disk, now, operation).id
        fallback == DefaultId(operation)
    IN  (IF cached # "" THEN <<cached>> ELSE <<>>)
        \o (IF fallback # "" THEN <<fallback>> ELSE <<>>)
        \o ExtraIds(method)

FirstAt(s, x) == CHOOSE i \in 1..Len(s) : s[i] = x /\ \A j \in 1..(i - 1) : s[j] # x

Qids(entries) == [i \in 1..Len(entries) |-> entries[i].qid]

\* the dispatch is in its first pass, or ended in it
InFirstPass == method \in Methods /\ pc \in {"firstPass", "done"} /\ refreshCalls = 0

\* C29: the candidates of the first pass are the cache-resolved value, the
\* fallback and the extras, each once, ordered by their first position in that
\* list; the attempts of a pass take the candidates of the pass in order, one
\* attempt per candidate, so no identifier is attempted twice in a pass.
C29_CandidatesInOrderBuilt ==
    /\ InFirstPass =>
           /\ NoDup(ids)
           /\ {ids[i] : i \in 1..Len(ids)} = {Built[i] : i \in 1..Len(Built)}
           /\ \A i, j \in 1..Len(ids) :
                  i < j => FirstAt(Built, ids[i]) < FirstAt(Built, ids[j])
           /\ Len(log) <= Len(ids)
           /\ \A i \in 1..Len(log) : log[i].qid = ids[i]
    /\ method \in Methods =>
           /\ NoDup(Qids(LogOf(1)))
           /\ NoDup(Qids(LogOf(2)))
           /\ LogOf(2) # <<>> =>
                  /\ Len(LogOf(2)) <= Len(ids)
                  /\ \A i \in 1..Len(LogOf(2)) : LogOf(2)[i].qid = ids[i]

\* getTweet, with a cached identifier that equals its extra, attempted the cached
\* identifier and then the fallback, and ended without a third attempt
C29_Witness ==
    /\ InFirstPass /\ pc = "done" /\ method = "getTweet"
    /\ Built = <<TweetDetailExtraId, DEFAULT_QUERY_IDS["TweetDetail"], TweetDetailExtraId>>
    /\ Qids(log) = <<TweetDetailExtraId, DEFAULT_QUERY_IDS["TweetDetail"]>>
    /\ ~result.success

\* the retry pass of the dispatch ran to its end without a success or a throw
RetryPassExhausted ==
    /\ Finished /\ LogOf(2) # <<>>
    /\ AllOut(LogOf(2), {"404", "error", "silent"})

\* C30: the candidates of the retry pass are built as those of the first pass
\* are, extras included: in a retry pass that no candidate ended, every extra
\* identifier of the caller was attempted.
C30_ExtrasRetriedInRetryPass ==
    RetryPassExhausted =>
        \A k \in 1..Len(ExtraIds(method)) :
            \E i \in 1..Len(LogOf(2)) : LogOf(2)[i].qid = ExtraIds(method)[k]

----------------------------------------------------------------------------
(* Properties of the bundle scan and the refresh around it (SpecScan) *)

\* a refresh has just written its snapshot
RefreshWrote == scan.phase = "done" /\ last.call = "refresh" /\ last.wrote

Range(f) == {f[x] : x \in DOMAIN f}

\* C31: in the snapshot a successful refresh wrote, in memory and in the file,
\* discovery.bundles holds exactly the names of the bundles that gave the scan at
\* least one identifier; a bundle whose fetch failed, that was not fetched, or that
\* matched nothing is not in it.
C31_BundlesListedAreThoseThatMatched ==
    RefreshWrote =>
        /\ Range(memoryCache.discovery.bundles) = Range(scan.bundle)
        /\ Range(loadCache(disk).discovery.bundles) = Range(scan.bundle)

\* the fetches of the scan that have been started, and those still in flight
Started == {k \in DOMAIN scan.status : scan.status[k] # "waiting"}
InFlight == {k \in DOMAIN scan.status : scan.status[k] = "inflight"}
BatchNumber(k) == (k - 1) \div 6

\* C32: during a scan at most 6 bundle fetches are in flight; a fetch of a later
\* batch is started only when every fetch of the earlier batches has completed or
\* failed; a failed fetch ends neither its batch nor the scan (the scan ends with
\* no fetch left in flight, and short of the last bundle only when every wanted
\* operation is resolved); and no batch is started once every wanted operation
\* is resolved.
C32_BatchesOfSixAwaitedWhole ==
    /\ [](scan.phase # "idle" =>
             /\ Cardinality(InFlight) <= 6
             /\ \A j \in Started, k \in DOMAIN scan.status :
                    BatchNumber(k) < BatchNumber(j) => scan.status[k] \in {"done", "failed"}
             /\ scan.phase \in {"scanned", "done"} =>
                    /\ InFlight = {}
                    /\ \/ DOMAIN scan.results = DISCOVERY_OPERATIONS
                       \/ Started = DOMAIN scan.status)
    /\ [][(scan.phase = "scanning" /\ scan'.phase = "scanning" /\ scan'.i # scan.i) =>
              DOMAIN scan.results # DISCOVERY_OPERATIONS]_vars

\* the second batch is in flight after a first batch in which fetches failed
C32_Witness ==
    /\ scan.phase = "scanning" /\ Len(scan.urls) > 6
    /\ scan.status[3] = "failed" /\ scan.status[6] = "failed"
    /\ InFlight # {} /\ \A k \in InFlight : k > 6

\* C39: during a scan an operation that has an identifier keeps it; and the
\* identifiers a scan ends with do not depend on the order in which the fetches of
\* a batch settle: they are those of the scan whose fetches settle in the order
\* of the urls, also when two bundles of a batch name different identifiers for
\* one operation.
C39_ScanIndependentOfCompletionOrder ==
    /\ [][(scan.phase = "scanning" /\ scan'.phase \in {"scanning", "scanned"}) =>
              \A o \in DOMAIN scan.results :
                  o \in DOMAIN scan'.results /\ scan'.results[o] = scan.results[o]]_vars
    /\ [](scan.phase \in {"scanned", "done"} =>
             scan.results = scanBundles(scan.contents, DISCOVERY_OPERATIONS, EmptyMap))

----------------------------------------------------------------------------
(* Properties of the pagination loops (SpecOps) *)

\* a pagination loop has received a page
PageReceived == pc = "page" /\ outer.kind = "all" /\ result.success

RECURSIVE FirstOccurrences(_, _)
\* items without those in seen and without repetitions, in order
FirstOccurrences(items, seenIds) ==
    IF items = <<>> THEN <<>>
    ELSE IF Head(items) \in seenIds THEN FirstOccurrences(Tail(items), seenIds)
    ELSE <<Head(items)>> \o FirstOccurrences(Tail(items), seenIds \cup {Head(items)})

Take(items, count) ==
    IF count.inf \/ Len(items) <= count.v THEN items ELSE SubSeq(items, 1, count.v)

\* C33: when a page of searchAll, getUserTweetsAll or getBookmarksAll returns as
\* next-cursor the cursor it was requested with, the loop requests no further
\* page and returns a success holding the items accumulated, those of this page
\* included, and no next-cursor.
C33_SameCursorEndsPagination ==
    [][(PageReceived /\ outer.cursor # "" /\ result.data.nextCursor = outer.cursor) =>
          /\ pc' = "done"
          /\ outer'.requested = outer.requested
          /\ result'.success
          /\ result'.data.nextCursor = ""
          /\ result'.data.tweets =
                 Take(outer.all \o FirstOccurrences(result.data.tweets, outer.seen),
                      outer.count)]_vars

\* a loop ended after its second page, requested with c1, returned c1 and a tweet
\* not seen before
C33_Witness ==
    /\ pc = "done" /\ outer.kind = "all" /\ result.success
    /\ outer.requested = <<"", "c1">>
    /\ log # <<>> /\ log[Len(log)].out = "ok"
    /\ log[Len(log)].value.data.nextCursor = "c1"
    /\ Len(result.data.tweets) = 2

\* this step is a page request of a pagination loop that has requested one before
LaterPageRequested ==
    /\ outer.kind = "all" /\ outer'.kind = "all"
    /\ Len(outer.requested) > 0
    /\ Len(outer'.requested) = Len(outer.requested) + 1

\* C34: in searchAll, getUserTweetsAll and getBookmarksAll every page request
\* after the first is made at the end of a sleep of the loop, whose length is a
\* positive constant of the operation.
C34_DelayBetweenPages ==
    [][LaterPageRequested => pc = "sleep" /\ SleepMs(outer.name) > 0]_vars

----------------------------------------------------------------------------
(* Properties of the query-id cache, continued (SpecCache) *)

Lookups == {"getSnapshotInfo", "getQueryId"}

\* C35: the cache file is read by the first getSnapshotInfo / getQueryId call
\* only: a lookup that comes right after another lookup, with no clearMemory
\* between them, does not read the file, also when the first found no valid
\* file. (A lookup reads the file exactly when memoryCache is null as it starts.)
C35_FileReadAtMostOnce ==
    [][(last.call \in Lookups /\ last'.call \in Lookups) => memoryCache # NULL]_vars

\* a refresh has just replaced the snapshot
Superseded == last.call = "refresh" /\ last.wrote

\* C36: after a successful refresh the snapshot, in memory and in the file, holds
\* in ids exactly the wanted operations the scan of this refresh resolved, each
\* with the identifier found, whatever the snapshot before held; getQueryId
\* answers an operation that is not among them with its hardcoded identifier;
\* fetchedAt is the time of the refresh and ttlMs is 24 hours.
C36_RefreshSupersedesWholesale ==
    Superseded =>
        LET resolved == {o \in DISCOVERY_OPERATIONS :
                            o \in DOMAIN last.found /\ last.found[o] # ""}
        IN  /\ DOMAIN memoryCache.ids = resolved
            /\ \A o \in resolved : memoryCache.ids[o] = last.found[o]
            /\ loadCache(disk) = memoryCache
            /\ memoryCache.fetchedAt = ToISOString(last.t)
            /\ memoryCache.ttlMs = 24 * 60 * 60 * 1000
            /\ \A o \in QueryOps \ resolved :
                   getQueryId(memoryCache, disk, now, o).id = DefaultId(o)

\* a refresh an hour after the file was written resolved TweetDetail alone; the
\* file held UserTweets before and the snapshot no longer does
C36_Witness ==
    /\ Superseded
    /\ last.t = HourMs
    /\ loadCache(last.preDisk) # NULL
    /\ "UserTweets" \in DOMAIN loadCache(last.preDisk).ids
    /\ DOMAIN memoryCache.ids = {"TweetDetail"}

\* a pagination loop is running
Looping == outer.kind = "all" /\ pc # "done"

\* C37: every pagination loop is bounded. The pages it has requested never number
\* more than the distinct ids it has accumulated plus one, for every count,
\* unbounded included, so a loop over MaxTweets ids requests at most MaxTweets + 1
\* pages; and a page that failed ends the loop in that step with the failure of
\* the page and no items.
C37_PaginationTerminates ==
    /\ [](outer.kind = "all" =>
             /\ Len(outer.requested) <= Cardinality(outer.seen) + 1
             /\ Cardinality(outer.seen) <= MaxTweets)
    /\ [][(Looping /\ pc = "page" /\ ~result.success) =>
              /\ pc' = "done"
              /\ outer'.requested = outer.requested
              /\ ~result'.success
              /\ result'.error = result.error
              /\ result'.data.tweets = <<>>]_vars

\* getBookmarksAll with an unbounded count requested as many pages as there are
\* ids, each page with one id not seen before, and failed on the last one
C37_Witness ==
    /\ outer.kind = "all" /\ pc = "done"
    /\ outer.name = "getBookmarksAll" /\ outer.count = Infinity
    /\ Len(outer.requested) = MaxTweets
    /\ Cardinality(outer.seen) = MaxTweets - 1
    /\ ~result.success

\* a pagination loop has returned a success
LoopSucceeded == outer.kind = "all" /\ pc = "done" /\ result.success

\* C38: in every pagination loop the accumulated list never holds an id twice
\* and never more than count items; each page appends its ids not seen before, in
\* the order of the page, up to count; the list returned is the accumulated one,
\* and a next-cursor is returned only when maxPages pages were read and the last
\* of them named a further page.
C38_AccumulatedUniqueWithinCount ==
    /\ [](outer.kind = "all" =>
             /\ NoDup(outer.all)
             /\ Range(outer.all) = outer.seen
             /\ ~outer.count.inf => Len(outer.all) <= outer.count.v)
    /\ [](LoopSucceeded =>
             /\ result.data.tweets = outer.all
             /\ result.data.nextCursor # "" =>
                    /\ outer.maxPages # 0 /\ outer.pages = outer.maxPages
                    /\ log # <<>> /\ log[Len(log)].out = "ok"
                    /\ result.data.nextCursor = log[Len(log)].value.data.nextCursor
                    /\ result.data.nextCursor # outer.cursor)
    /\ [][PageReceived =>
              outer'.all = Take(outer.all \o FirstOccurrences(result.data.tweets, outer.seen),
                                outer.count)]_vars

\* a second page repeated the id of the first before a new one: the loop returned
\* the two ids once each, in the order met
C38_Witness ==
    /\ LoopSucceeded
    /\ outer.pages = 2
    /\ log # <<>> /\ log[Len(log)].out = "ok"
    /\ log[Len(log)].value.data.tweets = <<"t1", "t2">>
    /\ result.data.tweets = <<"t1", "t2">>
    /\ outer.count = Infinity

----------------------------------------------------------------------------
(* Properties of saving the snapshot, continued (SpecSave) *)

\* the write of the refresh is under way or has failed, and the file does not hold
\* the whole snapshot
WriteIncomplete == save.kind \in {"saving", "failed"} /\ loadCache(disk) # save.cache

====
